---- MODULE Spec2Model ----
(***************************************************************************)
(* Model of the MFT analysis pipeline of storage-usage-v2:                 *)
(*   tui/worker.rs            start_workers, process_mft_file,             *)
(*                            process_mft_bytes, try_build_full_path       *)
(*   tui/mainbound_message.rs MainboundMessage::handle                     *)
(*   tui/app.rs               MftShowApp::run (the presentation loop)      *)
(*   tui/widgets/tabs         AppTabs, SearchTab::update_file_entries      *)
(*   mft_query.rs             query_mft_files_fuzzy                        *)
(*   mft_entry_iterator.rs    MftEntryIterator                             *)
(*   mft_dump.rs, cli/        dump_mft_to_file, mft sync, mft dump,        *)
(*   elevation_commands.rs    elevation test, the elevated relaunch        *)
(*   config.rs                get_cache_dir, set_cache_dir                 *)
(*   mft_diff.rs              diff_mft_files, count_remaining_differences  *)
(*   cli/                     Cli::to_args and the clap definitions        *)
(*   tui/widgets/tabs         SearchTab::on_key, SearchTab::render         *)
(*                                                                         *)
(* Strings are sequences of one-character strings, so that formatting,     *)
(* joining and prefix tests are computed and not assumed.                  *)
(***************************************************************************)
EXTENDS Integers, Sequences, FiniteSets, TLC

\* ------------------------------------------------------------------ bounds
\* Number of record slots of a generated MFT stream (resolver inputs).
MaxRecords == 3
\* Longest attribute list of a generated record (attribute inputs).
MaxAttrs == 2
\* The hop guard of try_build_full_path. The source compares the hop counter
\* with 4096; the model scales that number down so that a walk that runs
\* into the guard can be evaluated. Every formula is stated relative to it.
HopGuard == 3
\* Worker threads of the data-parallel pool (hardware concurrency).
NumThreads == 2

\* --------------------------------------------------------------- constants
\* Record 5 is the volume root (root sentinel of the walk).
RootRecord == 5
\* parent.entry == 0 means "no parent reference".
NoParentEntry == 0
\* Batch limit of one SearchTab::update_file_entries call.
BatchLimit == 10000

\* Option::None of an Option<u64>.
None == -1

\* ------------------------------------------------------------------ strings
Backslash == "\\"
DotName == <<".">>
DotDotName == <<".", ".">>
UnknownDrive == "?"

RECURSIVE Join(_, _)
\* components.join(sep)
Join(components, sep) ==
    IF Len(components) = 0 THEN <<>>
    ELSE IF Len(components) = 1 THEN components[1]
    ELSE components[1] \o <<sep>> \o Join(Tail(components), sep)

\* Vec::reverse
Reverse(s) == [k \in 1..Len(s) |-> s[Len(s) + 1 - k]]

\* char::is_ascii_alphabetic over the characters the model uses
IsAsciiAlphabetic(c) == c \in {"a", "b", "c", "d", "A", "B", "C", "D"}

\* char::to_ascii_uppercase over the characters the model uses
ToAsciiUppercase(c) ==
    CASE c = "a" -> "A"
      [] c = "b" -> "B"
      [] c = "c" -> "C"
      [] c = "d" -> "D"
      [] OTHER -> c

\* Drive letter inferred from the file stem (C.mft -> 'C', otherwise '?').
DriveLetterOf(stem) ==
    IF Len(stem) = 0 THEN UnknownDrive
    ELSE IF IsAsciiAlphabetic(stem[1]) THEN ToAsciiUppercase(stem[1])
    ELSE UnknownDrive

\* The file-name filter: empty, starting with '$', "." and ".." are skipped.
IsFilteredName(filename) ==
    \/ Len(filename) = 0
    \/ filename[1] = "$"
    \/ filename = DotName
    \/ filename = DotDotName

\* ------------------------------------------------------------ path building
\* The parent walk of try_build_full_path. Returns the accumulated components
\* (innermost first) or the first parent that is absent from directories.
RECURSIVE WalkParents(_, _, _, _)
WalkParents(components, current, guard, directories) ==
    IF current = None
        THEN [ok |-> TRUE, components |-> components, missing |-> None]
    ELSE IF guard > HopGuard
        THEN [ok |-> TRUE, components |-> components, missing |-> None]
    ELSE IF current = RootRecord
        THEN [ok |-> TRUE, components |-> components, missing |-> None]
    ELSE IF current \in DOMAIN directories
        THEN IF directories[current].name = DotName
                THEN [ok |-> TRUE, components |-> components, missing |-> None]
                ELSE WalkParents(Append(components, directories[current].name),
                                 directories[current].parent, guard + 1, directories)
    ELSE [ok |-> FALSE, components |-> components, missing |-> current]

\* format!("\\{}", ..) for an unknown drive, format!("{drive_letter}:\\{}", ..) otherwise
FormatFullPath(components, drive_letter) ==
    IF drive_letter = UnknownDrive
        THEN <<Backslash>> \o Join(components, Backslash)
        ELSE <<drive_letter, ":", Backslash>> \o Join(components, Backslash)

\* try_build_full_path: Ok(path) or Err(missing parent)
try_build_full_path(filename, parent_ref, directories, drive_letter) ==
    LET walk == WalkParents(<<filename>>, parent_ref, 0, directories)
    IN  IF walk.ok
            THEN [ok |-> TRUE,
                  path |-> FormatFullPath(Reverse(walk.components), drive_letter),
                  missing |-> None]
            ELSE [ok |-> FALSE, path |-> <<>>, missing |-> walk.missing]

\* Mutant of FallbackPath: the drive prefix is left out.
FallbackPath_NoDrive(filename, drive_letter) == filename

\* The fallback path of the end-of-stream flush.
FallbackPath(filename, drive_letter) ==
    IF drive_letter # UnknownDrive
        THEN <<drive_letter, ":", Backslash>> \o filename
        ELSE filename

\* ------------------------------------------------------------ the resolver
\* pending.entry(key).or_default().push(pend)
PendingPush(pending, key, pend) ==
    IF key \in DOMAIN pending
        THEN [pending EXCEPT ![key] = Append(@, pend)]
        ELSE pending @@ (key :> <<pend>>)

\* Mutant of PendingWithout: the key is looked up but not removed.
PendingWithout_KeepsKey(pending, key) == pending

\* pending.remove(&key): the map without key
PendingWithout(pending, key) ==
    [k \in (DOMAIN pending) \ {key} |-> pending[k]]

\* Mutant of UnblockChildren: a resolved record does not unblock its children.
UnblockChildren_NoDrain(st, key) == st

\* if let Some(children) = pending.remove(&key) { resolve_queue.extend(children); }
UnblockChildren(st, key) ==
    IF key \in DOMAIN st.pending
        THEN [st EXCEPT !.resolve_queue = @ \o st.pending[key],
                        !.pending = PendingWithout(st.pending, key)]
        ELSE st

\* One resolution attempt of an entry (the match on try_build_full_path):
\* Ok -> discovered.push + unblock its children; Err -> file under the missing parent.
ResolveOne(st, pend, drive_letter) ==
    LET r == try_build_full_path(pend.filename, pend.parent_ref, st.directories, drive_letter)
    IN  IF r.ok
            THEN UnblockChildren(
                    [st EXCEPT !.discovered = Append(@, r.path),
                               !.discovered_recs = Append(@, pend.record_number)],
                    pend.record_number)
            ELSE [st EXCEPT !.pending = PendingPush(@, r.missing, pend),
                            !.filed = Append(@, <<pend.record_number, r.missing>>)]

\* Mutant of DrainResolveQueue: the queue is left as it is.
DrainResolveQueue_NoDrain(st, drive_letter) == st

RECURSIVE DrainResolveQueue(_, _)
\* while let Some(pend) = resolve_queue.pop() { ... }
DrainResolveQueue(st, drive_letter) ==
    IF Len(st.resolve_queue) = 0 THEN st
    ELSE LET pend == st.resolve_queue[Len(st.resolve_queue)]
             popped == [st EXCEPT !.resolve_queue = SubSeq(@, 1, Len(@) - 1)]
         IN  DrainResolveQueue(ResolveOne(popped, pend, drive_letter), drive_letter)

\* The body run for the first accepted FILE_NAME attribute of a record.
ResolveFileName(st, record_number, attribute, drive_letter) ==
    LET parent_ref == IF attribute.parent = NoParentEntry THEN None ELSE attribute.parent
        pend == [record_number |-> record_number,
                 filename |-> attribute.name,
                 parent_ref |-> parent_ref]
        inserted == [st EXCEPT !.directories =
                        [k \in (DOMAIN @) \cup {record_number} |->
                            IF k = record_number
                                THEN [name |-> attribute.name, parent |-> parent_ref]
                                ELSE @[k]]]
    IN  DrainResolveQueue(ResolveOne(inserted, pend, drive_letter), drive_letter)

RECURSIVE WalkAttributes_StopsAtErr(_, _, _, _, _)
\* Mutant of WalkAttributes: an attribute that fails to parse ends the walk.
WalkAttributes_StopsAtErr(st, record_number, attributes, k, drive_letter) ==
    IF k > Len(attributes) THEN st
    ELSE IF attributes[k].kind = "err" THEN st
    ELSE IF attributes[k].kind # "x30"
        THEN WalkAttributes_StopsAtErr(st, record_number, attributes, k + 1, drive_letter)
    ELSE IF IsFilteredName(attributes[k].name)
        THEN WalkAttributes_StopsAtErr(st, record_number, attributes, k + 1, drive_letter)
    ELSE ResolveFileName(st, record_number, attributes[k], drive_letter)

RECURSIVE WalkAttributes(_, _, _, _, _)
\* for attribute in entry.iter_attributes(): skip unparsable attributes,
\* non-FILE_NAME attributes and filtered names; use the first remaining one.
WalkAttributes(st, record_number, attributes, k, drive_letter) ==
    IF k > Len(attributes) THEN st
    ELSE IF attributes[k].kind = "err"
        THEN WalkAttributes(st, record_number, attributes, k + 1, drive_letter)
    ELSE IF attributes[k].kind # "x30"
        THEN WalkAttributes(st, record_number, attributes, k + 1, drive_letter)
    ELSE IF IsFilteredName(attributes[k].name)
        THEN WalkAttributes(st, record_number, attributes, k + 1, drive_letter)
    ELSE ResolveFileName(st, record_number, attributes[k], drive_letter)

\* ------------------------------------------------------------------ inputs
X30(name, parent) == [kind |-> "x30", name |-> name, parent |-> parent]
ErrAttribute == [kind |-> "err", name |-> <<>>, parent |-> 0]
OtherAttribute == [kind |-> "other", name |-> <<>>, parent |-> 0]
ErrEntry(n) == [ok |-> FALSE, record_number |-> n, attributes |-> <<>>]
OkEntry(n, attributes) == [ok |-> TRUE, record_number |-> n, attributes |-> attributes]

\* Record numbers of the generated slots: the slot after the root onwards.
FirstRecord == RootRecord + 1
SlotRecord(k) == RootRecord + k
\* The name a generated record carries: one letter per slot.
SlotLetters == <<"p", "q", "r", "s", "t", "u">>
SlotName(k) == <<SlotLetters[k]>>
\* Parent references a generated record may carry: none, the root, every
\* record of the stream and one record that is absent from the stream.
ParentChoices == {NoParentEntry, RootRecord} \cup {SlotRecord(k) : k \in 1..(MaxRecords + 1)}

\* Slot choices of a topology stream: an unparsable record, a record without
\* an accepted name, or a record named after its slot with parent p.
ErrChoice == -2
NoNameChoice == -3
SlotChoices == {ErrChoice, NoNameChoice} \cup ParentChoices
SlotEntry(k, c) ==
    IF c = ErrChoice THEN ErrEntry(SlotRecord(k))
    ELSE IF c = NoNameChoice THEN OkEntry(SlotRecord(k), <<>>)
    ELSE OkEntry(SlotRecord(k), <<X30(SlotName(k), c)>>)
\* Streams in slot order (slot k holds record 5 + k, as in an MFT); a parent
\* with a higher record number is a forward reference.
TopologyStreams ==
    {[k \in 1..MaxRecords |-> SlotEntry(k, choice[k])] : choice \in [1..MaxRecords -> SlotChoices]}

\* Attributes a generated record may carry in front of / instead of its name.
ShortName == <<"P", "~">>
AttributeChoices ==
    {ErrAttribute, OtherAttribute,
     X30(<<>>, RootRecord), X30(<<"$", "M">>, RootRecord),
     X30(DotName, RootRecord), X30(DotDotName, RootRecord),
     X30(SlotName(1), RootRecord), X30(ShortName, RootRecord),
     X30(SlotName(1), SlotRecord(MaxRecords + 1))}
AttributeLists == UNION {[1..n -> AttributeChoices] : n \in 0..MaxAttrs}
\* A record with an arbitrary attribute list followed by a child of it.
AttributeStreams ==
    {<<OkEntry(SlotRecord(1), attributes),
       OkEntry(SlotRecord(2), <<X30(SlotName(2), SlotRecord(1))>>)>> : attributes \in AttributeLists}

MftFile(stem, stat_ok, open_ok, header_ok, entries) ==
    [stem |-> stem, stat_ok |-> stat_ok, open_ok |-> open_ok,
     header_ok |-> header_ok, entry_size |-> 1024, entries |-> entries]
\* File stems: "c" (C.mft style, lower case on disk) and a stem without a letter.
StemChoices == {<<"c">>, <<"1">>}

\* --------------------------------------------------------------- variables
VARIABLES
    files,            \* the cache files handed to start_workers (input)
    pc,               \* position of the task of file i
    pos,              \* entries the iterator of file i has yielded
    directories,      \* process_mft_bytes: directories
    pending,          \* process_mft_bytes: pending
    filed,            \* history: the (record, key) pairs pushed to pending, in order
    resolve_queue,    \* process_mft_bytes: resolve_queue
    discovered,       \* process_mft_bytes: discovered (of the current record)
    discovered_recs,  \* history: the record each element of discovered belongs to
    sent,             \* history: the events file i's task has sent, in order
    chan,             \* the mpsc channel: events sent and not yet received
    rx_alive,         \* the Receiver has not been dropped
    full,             \* try_for_each has seen an Err and stops handing out items
    app_pc,           \* position of MftShowApp::run
    mft_files,        \* MftShowApp.mft_files: one MftFileProgress per file
    is_quitting,      \* MftShowApp.is_quitting
    quit_effect,      \* MftShowApp.quit_effect: time the effect still has to run
    handle,           \* the Option<JoinHandle> of run: "held", "dropped" or "joined"
    tabs_selected,    \* AppTabs.selected
    last_file_count,  \* SearchTab.last_file_count
    injected,         \* the items pushed into the matcher's injector, in order
    quit_pressed,     \* history: a quit key press has been read
    late_keys,        \* history: the kinds of key press read while quitting
    matcher_ticks,    \* history: matcher.tick calls since the top of the loop iteration
    env,              \* what the user and the terminal do in this run (input)
    walk,             \* one call of try_build_full_path, run step by step
    query,            \* one run of query_mft_files_fuzzy (mft query)
    iter,             \* one MftEntryIterator, from new to the None of next
    dump,             \* the processes of one mft sync / mft dump / elevation test
    config,           \* config.rs: CACHE_DIR_CACHE, its process and what it reads
    diff,             \* one run of diff_mft_files (mft diff)
    display,          \* the display loop of mft query and the worker's done flag
    tab,              \* SearchTab: selection, scroll window and what it last rendered
    cli               \* one Cli value, its to_args() and the parse of that argv

workerVars == <<pc, pos, directories, pending, filed, resolve_queue, discovered, discovered_recs, sent, chan, full>>
appVars == <<app_pc, mft_files, is_quitting, quit_effect, handle, tabs_selected,
             last_file_count, injected, quit_pressed, late_keys, matcher_ticks>>
cliVars == <<iter, dump, config>>
toolVars == <<diff, display, tab, cli>>
vars == <<files, env, walk, query, workerVars, rx_alive, appVars, cliVars, toolVars>>

FileIndices == 1..Len(files)
drive_letter(i) == DriveLetterOf(files[i].stem)

\* ------------------------------------------------------------------ events
Message(type, i) ==
    [type |-> type, file_index |-> i, size |-> 0, is_healthy |-> TRUE,
     files |-> <<>>, recs |-> <<>>]
FileSizeDiscovered(i, file_size) == [Message("FileSizeDiscovered", i) EXCEPT !.size = file_size]
EntrySizeDiscovered(i, entry_size) == [Message("EntrySizeDiscovered", i) EXCEPT !.size = entry_size]
Progress(i, processed_size) == [Message("Progress", i) EXCEPT !.size = processed_size]
DiscoveredFiles(i, paths, recs) == [Message("DiscoveredFiles", i) EXCEPT !.files = paths, !.recs = recs]
EntryStatus(i, is_healthy) == [Message("EntryStatus", i) EXCEPT !.is_healthy = is_healthy]
Complete(i) == Message("Complete", i)
ErrorMessage(i) == Message("Error", i)

\* ------------------------------------------------------------------ workers
\* File i's task has sent an event of this type.
HasSent(i, type) == \E j \in 1..Len(sent[i]) : sent[i][j].type = type

\* Mutant of Send: the result of the send is ignored and the task goes on.
Send_IgnoresDisconnect(i, msg, next_pc) ==
    /\ chan' = IF rx_alive THEN Append(chan, msg) ELSE chan
    /\ sent' = IF rx_alive THEN [sent EXCEPT ![i] = Append(@, msg)] ELSE sent
    /\ pc' = [pc EXCEPT ![i] = next_pc]
    /\ full' = full

\* tx.send(msg)?: delivered while the receiver lives; otherwise the send
\* returns an error, the task returns it and try_for_each stops.
Send(i, msg, next_pc) ==
    IF rx_alive
        THEN /\ chan' = Append(chan, msg)
             /\ sent' = [sent EXCEPT ![i] = Append(@, msg)]
             /\ pc' = [pc EXCEPT ![i] = next_pc]
             /\ full' = full
        ELSE /\ pc' = [pc EXCEPT ![i] = "disconnected"]
             /\ full' = TRUE
             /\ UNCHANGED <<chan, sent>>

\* An error other than a failed send returned from the task.
ReturnErr(i) ==
    /\ pc' = [pc EXCEPT ![i] = "failed"]
    /\ full' = TRUE

Running == {i \in FileIndices : pc[i] \notin {"unstarted", "done", "failed", "disconnected"}}

\* into_par_iter().enumerate().try_for_each: a pool thread takes file i.
StartFile(i) ==
    /\ pc[i] = "unstarted"
    /\ ~full
    /\ Cardinality(Running) < NumThreads
    /\ pc' = [pc EXCEPT ![i] = "stat"]
    /\ UNCHANGED <<iter, dump, config, toolVars, files, env, walk, query, rx_alive, appVars, pos, directories, pending, filed, resolve_queue,
                   discovered, discovered_recs, sent, chan, full>>

\* Mutant of StatFile: the file size is read but FileSizeDiscovered is not sent.
StatFile_NoSend(i) ==
    /\ pc[i] = "stat"
    /\ IF files[i].stat_ok
          THEN pc' = [pc EXCEPT ![i] = "map"] /\ full' = full
          ELSE ReturnErr(i)
    /\ UNCHANGED <<iter, dump, config, toolVars, files, env, walk, query, rx_alive, appVars, pos, directories, pending, filed, resolve_queue,
                   discovered, discovered_recs, chan, sent>>

\* std::fs::metadata + send FileSizeDiscovered
StatFile(i) ==
    /\ pc[i] = "stat"
    /\ IF files[i].stat_ok
          THEN Send(i, FileSizeDiscovered(i, Len(files[i].entries) * files[i].entry_size), "map")
          ELSE ReturnErr(i) /\ UNCHANGED <<chan, sent>>
    /\ UNCHANGED <<iter, dump, config, toolVars, files, env, walk, query, rx_alive, appVars, pos, directories, pending, filed, resolve_queue,
                   discovered, discovered_recs>>

\* File::open + mmap + to_vec
MapFile(i) ==
    /\ pc[i] = "map"
    /\ IF files[i].open_ok
          THEN pc' = [pc EXCEPT ![i] = "parser"] /\ full' = full
          ELSE ReturnErr(i)
    /\ UNCHANGED <<iter, dump, config, toolVars, files, env, walk, query, rx_alive, appVars, pos, directories, pending, filed, resolve_queue,
                   discovered, discovered_recs, sent, chan>>

\* Mutant of ParserInit: the parser is built but EntrySizeDiscovered is not sent.
ParserInit_NoSend(i) ==
    /\ pc[i] = "parser"
    /\ IF files[i].header_ok
          THEN pc' = [pc EXCEPT ![i] = "iter"] /\ full' = full
          ELSE ReturnErr(i)
    /\ UNCHANGED <<iter, dump, config, toolVars, files, env, walk, query, rx_alive, appVars, pos, directories, pending, filed, resolve_queue,
                   discovered, discovered_recs, chan, sent>>

\* MftParser::from_buffer + send EntrySizeDiscovered
ParserInit(i) ==
    /\ pc[i] = "parser"
    /\ IF files[i].header_ok
          THEN Send(i, EntrySizeDiscovered(i, files[i].entry_size), "iter")
          ELSE ReturnErr(i) /\ UNCHANGED <<chan, sent>>
    /\ UNCHANGED <<iter, dump, config, toolVars, files, env, walk, query, rx_alive, appVars, pos, directories, pending, filed, resolve_queue,
                   discovered, discovered_recs>>

\* Mutant of NextEntry: every yielded entry is reported healthy.
NextEntry_AlwaysHealthy(i) ==
    /\ pc[i] = "iter"
    /\ IF pos[i] < Len(files[i].entries)
          THEN /\ pos' = [pos EXCEPT ![i] = @ + 1]
               /\ LET entry == files[i].entries[pos[i] + 1]
                  IN  Send(i, EntryStatus(i, TRUE),
                           IF entry.ok THEN "resolve" ELSE "entry_error")
          ELSE /\ pc' = [pc EXCEPT ![i] = "flush"]
               /\ UNCHANGED <<pos, sent, chan, full>>
    /\ UNCHANGED <<iter, dump, config, toolVars, files, env, walk, query, rx_alive, appVars, directories, pending, filed, resolve_queue,
                   discovered, discovered_recs>>

\* parser.iter_entries().next() + send EntryStatus; the loop ends after the last slot.
NextEntry(i) ==
    /\ pc[i] = "iter"
    /\ IF pos[i] < Len(files[i].entries)
          THEN /\ pos' = [pos EXCEPT ![i] = @ + 1]
               /\ LET entry == files[i].entries[pos[i] + 1]
                  IN  Send(i, EntryStatus(i, entry.ok),
                           IF entry.ok THEN "resolve" ELSE "entry_error")
          ELSE /\ pc' = [pc EXCEPT ![i] = "flush"]
               /\ UNCHANGED <<pos, sent, chan, full>>
    /\ UNCHANGED <<iter, dump, config, toolVars, files, env, walk, query, rx_alive, appVars, directories, pending, filed, resolve_queue,
                   discovered, discovered_recs>>

\* Mutant of SendError: the Err arm sends Error and leaves the record loop.
SendError_Halts(i) ==
    /\ pc[i] = "entry_error"
    /\ Send(i, ErrorMessage(i), "flush")
    /\ UNCHANGED <<iter, dump, config, toolVars, files, env, walk, query, rx_alive, appVars, pos, directories, pending, filed, resolve_queue,
                   discovered, discovered_recs>>

\* Err(e) arm: send Error (then Progress, then continue)
SendError(i) ==
    /\ pc[i] = "entry_error"
    /\ Send(i, ErrorMessage(i), "progress")
    /\ UNCHANGED <<iter, dump, config, toolVars, files, env, walk, query, rx_alive, appVars, pos, directories, pending, filed, resolve_queue,
                   discovered, discovered_recs>>

\* The attribute walk of one parsed record (no send).
ResolveEntry(i) ==
    /\ pc[i] = "resolve"
    /\ LET entry == files[i].entries[pos[i]]
           st == WalkAttributes(
                    [directories |-> directories[i], pending |-> pending[i],
                     resolve_queue |-> resolve_queue[i], filed |-> filed[i],
                     discovered |-> <<>>, discovered_recs |-> <<>>],
                    entry.record_number, entry.attributes, 1, drive_letter(i))
       IN  /\ directories' = [directories EXCEPT ![i] = st.directories]
           /\ pending' = [pending EXCEPT ![i] = st.pending]
           /\ resolve_queue' = [resolve_queue EXCEPT ![i] = st.resolve_queue]
           /\ filed' = [filed EXCEPT ![i] = st.filed]
           /\ discovered' = [discovered EXCEPT ![i] = st.discovered]
           /\ discovered_recs' = [discovered_recs EXCEPT ![i] = st.discovered_recs]
    /\ pc' = [pc EXCEPT ![i] = "emit"]
    /\ UNCHANGED <<iter, dump, config, toolVars, files, env, walk, query, rx_alive, appVars, pos, sent, chan, full>>

\* Mutant of EmitDiscovered: DiscoveredFiles is sent for every parsed record.
EmitDiscovered_Always(i) ==
    /\ pc[i] = "emit"
    /\ Send(i, DiscoveredFiles(i, discovered[i], discovered_recs[i]), "progress")
    /\ UNCHANGED <<iter, dump, config, toolVars, files, env, walk, query, rx_alive, appVars, pos, directories, pending, filed, resolve_queue,
                   discovered, discovered_recs>>

\* if !discovered.is_empty() { send DiscoveredFiles }
EmitDiscovered(i) ==
    /\ pc[i] = "emit"
    /\ Len(discovered[i]) > 0
    /\ Send(i, DiscoveredFiles(i, discovered[i], discovered_recs[i]), "progress")
    /\ UNCHANGED <<iter, dump, config, toolVars, files, env, walk, query, rx_alive, appVars, pos, directories, pending, filed, resolve_queue,
                   discovered, discovered_recs>>

\* Mutant of SendProgress: the Err arm continues without sending Progress.
SendProgress_SkipsFailed(i) ==
    /\ \/ pc[i] = "progress"
       \/ pc[i] = "emit" /\ Len(discovered[i]) = 0
    /\ IF files[i].entries[pos[i]].ok
          THEN Send(i, Progress(i, files[i].entry_size), "iter")
          ELSE pc' = [pc EXCEPT ![i] = "iter"] /\ UNCHANGED <<chan, sent, full>>
    /\ UNCHANGED <<iter, dump, config, toolVars, files, env, walk, query, rx_alive, appVars, pos, directories, pending, filed, resolve_queue,
                   discovered, discovered_recs>>

\* send Progress (of a parsed record with or without discoveries, or of a failed one)
SendProgress(i) ==
    /\ \/ pc[i] = "progress"
       \/ pc[i] = "emit" /\ Len(discovered[i]) = 0
    /\ Send(i, Progress(i, files[i].entry_size), "iter")
    /\ UNCHANGED <<iter, dump, config, toolVars, files, env, walk, query, rx_alive, appVars, pos, directories, pending, filed, resolve_queue,
                   discovered, discovered_recs>>

\* One iteration of the flush loop: the HashMap yields its keys in no
\* particular order; every entry of the key's list gets the fallback path.
FlushBatch(i) ==
    /\ pc[i] = "flush"
    /\ \E key \in DOMAIN pending[i] :
          LET entries == pending[i][key]
              batch == [k \in 1..Len(entries) |-> FallbackPath(entries[k].filename, drive_letter(i))]
              recs == [k \in 1..Len(entries) |-> entries[k].record_number]
          IN  /\ pending' = [pending EXCEPT ![i] = PendingWithout(@, key)]
              /\ IF Len(batch) > 0
                    THEN Send(i, DiscoveredFiles(i, batch, recs), "flush")
                    ELSE UNCHANGED <<pc, sent, chan, full>>
    /\ UNCHANGED <<iter, dump, config, toolVars, files, env, walk, query, rx_alive, appVars, pos, directories, filed, resolve_queue,
                   discovered, discovered_recs>>

\* Mutant of SendComplete: Complete is sent when the record loop ends, before the flush.
SendComplete_BeforeFlush(i) ==
    /\ pc[i] = "flush"
    /\ ~HasSent(i, "Complete") \/ DOMAIN pending[i] = {}
    /\ Send(i, Complete(i), IF DOMAIN pending[i] = {} THEN "done" ELSE "flush")
    /\ UNCHANGED <<iter, dump, config, toolVars, files, env, walk, query, rx_alive, appVars, pos, directories, pending, filed, resolve_queue,
                   discovered, discovered_recs>>

\* process_mft_bytes returned Ok: send Complete
SendComplete(i) ==
    /\ pc[i] = "flush"
    /\ DOMAIN pending[i] = {}
    /\ Send(i, Complete(i), "done")
    /\ UNCHANGED <<iter, dump, config, toolVars, files, env, walk, query, rx_alive, appVars, pos, directories, pending, filed, resolve_queue,
                   discovered, discovered_recs>>

EmptyMap == [k \in {} |-> <<>>]
\* No call of try_build_full_path is being stepped / mft query is not run.
NoWalk == [pc |-> "none"]
NoQuery == [pc |-> "none"]
\* No iterator is being stepped / no command is run / config.rs is not used.
NoIter == [pc |-> "none"]
NoDump == [pc |-> "none"]
NoConfig == [pc |-> "none"]
\* mft diff is not run / the display loop is not run / no Search tab / no argv.
NoDiff == [pc |-> "none"]
NoDisplay == [pc |-> "none"]
NoSearch == [pc |-> "none"]
NoCli == [pc |-> "none"]
InitTools == diff = NoDiff /\ display = NoDisplay /\ tab = NoSearch /\ cli = NoCli

InitWorkers ==
    /\ pc = [i \in FileIndices |-> "unstarted"]
    /\ pos = [i \in FileIndices |-> 0]
    /\ directories = [i \in FileIndices |-> EmptyMap]
    /\ pending = [i \in FileIndices |-> EmptyMap]
    /\ filed = [i \in FileIndices |-> <<>>]
    /\ resolve_queue = [i \in FileIndices |-> <<>>]
    /\ discovered = [i \in FileIndices |-> <<>>]
    /\ discovered_recs = [i \in FileIndices |-> <<>>]
    /\ sent = [i \in FileIndices |-> <<>>]
    /\ chan = <<>>
    /\ rx_alive = TRUE
    /\ full = FALSE


\* ------------------------------------------------------- presentation loop
\* Time the quit effect runs (the longer branch of the parallel effect),
\* in frame-time units.
QuitEffectTicks == 2
\* The tabs of AppTabs::new, in order: Overview, Visualizer, Search, Errors.
NumTabs == 4
SearchTabIndex == 2
QuitKeys == {"q", "Esc"}
OtherKeys == {"Left", "Right", "Char"}
\* Some(Instant::now())
SomeInstant == 0

\* MftShowApp::new: the progress entry of one file
NewProgress ==
    [total_size |-> None, entry_size |-> None, processed_size |-> 0,
     processing_end |-> None, files_within |-> <<>>,
     entry_health_statuses |-> <<>>, errors |-> <<>>]

\* MainboundMessage::handle
Handle(progress, msg) ==
    LET i == msg.file_index
    IN  CASE msg.type = "FileSizeDiscovered" -> [progress EXCEPT ![i].total_size = msg.size]
          [] msg.type = "EntrySizeDiscovered" -> [progress EXCEPT ![i].entry_size = msg.size]
          [] msg.type = "Progress" -> [progress EXCEPT ![i].processed_size = @ + msg.size]
          [] msg.type = "Complete" -> [progress EXCEPT ![i].processing_end = SomeInstant]
          [] msg.type = "Error" -> [progress EXCEPT ![i].errors = Append(@, "Error processing entry")]
          [] msg.type = "DiscoveredFiles" -> [progress EXCEPT ![i].files_within = @ \o msg.files]
          [] msg.type = "EntryStatus" ->
                [progress EXCEPT ![i].entry_health_statuses = Append(@, msg.is_healthy)]

RECURSIVE HandleAll(_, _)
\* while let Ok(message) = rx.try_recv() { message.handle(&mut self.mft_files)?; }
HandleAll(progress, messages) ==
    IF Len(messages) = 0 THEN progress
    ELSE HandleAll(Handle(progress, Head(messages)), Tail(messages))

RECURSIVE AllFilesWithin(_, _)
\* The order in which the nested loops of update_file_entries visit the paths:
\* file by file, each file's files_within in order.
AllFilesWithin(progress, i) ==
    IF i > Len(progress) THEN <<>>
    ELSE progress[i].files_within \o AllFilesWithin(progress, i + 1)

RECURSIVE InjectNewFiles(_, _, _, _, _)
\* The 'outer loop of update_file_entries over the visited paths: skip the
\* first last_count paths, push the others, stop at the batch limit.
InjectNewFiles(visited, current_count, files_added, last_count, items) ==
    IF current_count = Len(visited)
        THEN [last_file_count |-> current_count, injected |-> items, ticks |-> 1]
    ELSE IF current_count + 1 <= last_count
        THEN InjectNewFiles(visited, current_count + 1, files_added, last_count, items)
    ELSE IF files_added + 1 >= BatchLimit
        THEN [last_file_count |-> current_count + 1,
              injected |-> Append(items, visited[current_count + 1]), ticks |-> 1]
    ELSE InjectNewFiles(visited, current_count + 1, files_added + 1, last_count,
                        Append(items, visited[current_count + 1]))

\* SearchTab::update_file_entries (the matcher's items, last_file_count, and
\* the matcher.tick(10) that ends every call)
update_file_entries(progress, last_count, items) ==
    LET visited == AllFilesWithin(progress, 1)
        total_files == Len(visited)
    IN  IF total_files > last_count
            THEN InjectNewFiles(visited, 0, 0, last_count, items)
            ELSE [last_file_count |-> last_count, injected |-> items, ticks |-> 1]

\* Effect::process(delta_time): the effect's timer runs down; running() is "time left"
EffectProcess(effect, delta_time) == IF delta_time >= effect THEN 0 ELSE effect - delta_time
EffectRunning(effect) == effect > 0

\* Mutant of ShouldBreak: the loop breaks as soon as it is quitting.
ShouldBreak_IgnoresEffect(quitting, effect) == quitting

\* The break test after the frame: quitting and the quit effect is done.
ShouldBreak(quitting, effect) == quitting /\ ~EffectRunning(effect)

\* Mutant of TakeHandle: the handle is left in place.
TakeHandle_Keeps(h) == h

\* handle.take() on a quit key
TakeHandle(h) == IF h = "held" THEN "dropped" ELSE h

\* AppTabs::on_key: Left/Right switch tabs, other keys go to the selected tab
TabsOnKey(selected, key) ==
    CASE key = "Left" -> IF selected > 0 THEN selected - 1 ELSE selected
      [] key = "Right" -> IF selected < NumTabs - 1 THEN selected + 1 ELSE selected
      [] OTHER -> selected

\* The keys the user presses in a run, and whether terminal I/O can fail.
Environment(keys, io_fails) == [keys |-> keys, io_fails |-> io_fails]

InitApp ==
    /\ app_pc = "drain"
    /\ mft_files = [i \in FileIndices |-> NewProgress]
    /\ is_quitting = FALSE
    /\ quit_effect = QuitEffectTicks
    /\ handle = "held"
    /\ tabs_selected = 0
    /\ last_file_count = 0
    /\ injected = <<>>
    /\ quit_pressed = FALSE
    /\ late_keys = {}
    /\ matcher_ticks = 0

\* process messages: everything in the channel is received and handled
DrainChannel ==
    /\ app_pc = "drain"
    /\ mft_files' = HandleAll(mft_files, chan)
    /\ chan' = <<>>
    /\ matcher_ticks' = 0
    /\ app_pc' = "draw"
    /\ UNCHANGED <<iter, dump, config, toolVars, files, env, walk, query, rx_alive, pc, pos, directories, pending, filed, resolve_queue, discovered,
                   discovered_recs, sent, full, is_quitting, quit_effect, handle,
                   tabs_selected, last_file_count, injected, quit_pressed, late_keys>>

\* terminal.draw: render the selected tab, advance the quit effect by the
\* frame's delta time, then the break test.
DrawFrame ==
    /\ app_pc = "draw"
    /\ LET search == IF tabs_selected = SearchTabIndex
                        THEN update_file_entries(mft_files, last_file_count, injected)
                        ELSE [last_file_count |-> last_file_count, injected |-> injected, ticks |-> 0]
       IN  /\ last_file_count' = search.last_file_count
           /\ injected' = search.injected
           /\ matcher_ticks' = matcher_ticks + search.ticks
    /\ \E delta_time \in 0..QuitEffectTicks :
          quit_effect' = IF is_quitting THEN EffectProcess(quit_effect, delta_time) ELSE quit_effect
    /\ app_pc' = IF ShouldBreak(is_quitting, quit_effect') THEN "exited" ELSE "poll"
    /\ UNCHANGED <<iter, dump, config, toolVars, files, env, walk, query, rx_alive, workerVars, mft_files, is_quitting, handle,
                   tabs_selected, quit_pressed, late_keys>>

\* event::poll timed out, or the event was not a key press
PollNoKey ==
    /\ app_pc = "poll"
    /\ app_pc' = "drain"
    /\ UNCHANGED <<iter, dump, config, toolVars, files, env, walk, query, rx_alive, workerVars, mft_files, is_quitting, quit_effect, handle,
                   tabs_selected, last_file_count, injected, quit_pressed, late_keys, matcher_ticks>>

\* q or Esc: start quitting (once), drop the worker handle, continue
PressQuitKey ==
    /\ app_pc = "poll"
    /\ \E key \in QuitKeys \cap env.keys :
          /\ is_quitting' = TRUE
          /\ quit_effect' = IF ~is_quitting THEN QuitEffectTicks ELSE quit_effect
          /\ handle' = TakeHandle(handle)
          /\ quit_pressed' = TRUE
          /\ late_keys' = IF is_quitting THEN late_keys \cup {"quit"} ELSE late_keys
    /\ app_pc' = "drain"
    /\ UNCHANGED <<iter, dump, config, toolVars, files, env, walk, query, rx_alive, workerVars, mft_files, tabs_selected,
                   last_file_count, injected, matcher_ticks>>

\* Mutant of PressKey: the key is passed to the tabs also while quitting.
PressKey_WhileQuitting ==
    /\ app_pc = "poll"
    /\ \E key \in OtherKeys \cap env.keys :
          tabs_selected' = TabsOnKey(tabs_selected, key)
    /\ late_keys' = IF is_quitting THEN late_keys \cup {"other"} ELSE late_keys
    /\ app_pc' = "drain"
    /\ UNCHANGED <<iter, dump, config, toolVars, files, env, walk, query, rx_alive, workerVars, mft_files, is_quitting, quit_effect, handle,
                   last_file_count, injected, quit_pressed, matcher_ticks>>

\* any other key press: passed to the tabs unless quitting
PressKey ==
    /\ app_pc = "poll"
    /\ \E key \in OtherKeys \cap env.keys :
          tabs_selected' = IF ~is_quitting THEN TabsOnKey(tabs_selected, key) ELSE tabs_selected
    /\ late_keys' = IF is_quitting THEN late_keys \cup {"other"} ELSE late_keys
    /\ app_pc' = "drain"
    /\ UNCHANGED <<iter, dump, config, toolVars, files, env, walk, query, rx_alive, workerVars, mft_files, is_quitting, quit_effect, handle,
                   last_file_count, injected, quit_pressed, matcher_ticks>>

\* terminal.draw, event::poll or event::read failed: run returns the error;
\* its locals (the receiver, the handle) are dropped, nothing is joined.
IoError ==
    /\ app_pc \in {"draw", "poll"}
    /\ env.io_fails
    /\ app_pc' = "failed"
    /\ rx_alive' = FALSE
    /\ handle' = TakeHandle(handle)
    /\ UNCHANGED <<iter, dump, config, toolVars, files, env, walk, query, workerVars, mft_files, is_quitting, quit_effect,
                   tabs_selected, last_file_count, injected, quit_pressed, late_keys, matcher_ticks>>

AllTasksOver == \A i \in FileIndices : pc[i] \in {"unstarted", "done", "failed", "disconnected"}
CoordinatorOver == AllTasksOver /\ (full \/ \A i \in FileIndices : pc[i] # "unstarted")

\* after the loop: ratatui::restore(); a handle that is still held is joined
\* (the presentation thread blocks until the worker thread is over)
RestoreTerminal ==
    /\ app_pc = "exited"
    /\ IF handle = "held"
          THEN handle' = "joined" /\ app_pc' = "joining"
          ELSE handle' = handle /\ app_pc' = "restored"
    /\ UNCHANGED <<iter, dump, config, toolVars, files, env, walk, query, rx_alive, workerVars, mft_files, is_quitting, quit_effect,
                   tabs_selected, last_file_count, injected, quit_pressed, late_keys, matcher_ticks>>

\* run returns Ok: the receiver is dropped
RunReturn ==
    /\ \/ app_pc = "restored"
       \/ app_pc = "joining" /\ CoordinatorOver
    /\ app_pc' = "returned"
    /\ rx_alive' = FALSE
    /\ UNCHANGED <<iter, dump, config, toolVars, files, env, walk, query, workerVars, mft_files, is_quitting, quit_effect, handle,
                   tabs_selected, last_file_count, injected, quit_pressed, late_keys, matcher_ticks>>

NextApp ==
    \/ DrainChannel
    \/ DrawFrame
    \/ PollNoKey
    \/ PressQuitKey
    \/ PressKey
    \/ IoError
    \/ RestoreTerminal
    \/ RunReturn

\* ------------------------------- try_build_full_path, step by step (SpecWalk)
\* The loop of try_build_full_path (tui/worker.rs and its copy in
\* mft_query.rs) as a state machine: one action per way through the loop body.
\* Option<u64> of a parent entry: 0 is "no parent".
ParentRefOf(entry) == IF entry = NoParentEntry THEN None ELSE entry
\* The directories maps a walk may meet: each record is absent, or named "."
\* (a root-like entry), or carries its slot's name and any parent reference
\* (cycles included).
AbsentChoice == -4
DotChoice == -5
DirectoryChoices == {AbsentChoice, DotChoice} \cup ParentChoices
DirectoryOf(k, c) ==
    IF c = DotChoice THEN [name |-> DotName, parent |-> None]
    ELSE [name |-> SlotName(k), parent |-> ParentRefOf(c)]
DirectoriesOf(choice) ==
    [n \in {SlotRecord(k) : k \in {x \in 1..MaxRecords : choice[x] # AbsentChoice}} |->
        DirectoryOf(n - RootRecord, choice[n - RootRecord])]
WalkDirectories == {DirectoriesOf(choice) : choice \in [1..MaxRecords -> DirectoryChoices]}
WalkFileName == <<"f">>

\* let mut components = vec![filename]; let mut current = parent_ref; let mut guard = 0;
BeginWalk(filename, parent_ref, dirs, drive) ==
    [pc |-> "loop", filename |-> filename, parent_ref |-> parent_ref, directories |-> dirs,
     drive_letter |-> drive, components |-> <<filename>>, current |-> parent_ref, guard |-> 0,
     hops |-> 0, result |-> None]

\* Mutant of GuardExceeded: the hop guard never trips.
GuardExceeded_Never(guard) == FALSE

\* if guard > 4096 { break; }
GuardExceeded(guard) == guard > HopGuard

\* The loop ends: current is None, or one of the three breaks.
WalkBreak ==
    /\ walk.pc = "loop"
    /\ \/ walk.current = None
       \/ GuardExceeded(walk.guard)
       \/ walk.current = RootRecord
       \/ /\ walk.current \in DOMAIN walk.directories
          /\ walk.directories[walk.current].name = DotName
    /\ walk' = [walk EXCEPT !.pc = "format"]
    /\ UNCHANGED <<iter, dump, config, toolVars, files, env, query, workerVars, rx_alive, appVars>>

\* One parent hop: push the directory's name, move to its parent, guard += 1.
WalkHop ==
    /\ walk.pc = "loop"
    /\ walk.current # None
    /\ ~GuardExceeded(walk.guard)
    /\ walk.current # RootRecord
    /\ walk.current \in DOMAIN walk.directories
    /\ walk.directories[walk.current].name # DotName
    /\ walk' = [walk EXCEPT !.components = Append(@, walk.directories[walk.current].name),
                            !.current = walk.directories[walk.current].parent,
                            !.guard = @ + 1,
                            !.hops = @ + 1]
    /\ UNCHANGED <<iter, dump, config, toolVars, files, env, query, workerVars, rx_alive, appVars>>

\* return Err(pid): the parent is not in directories
WalkMissing ==
    /\ walk.pc = "loop"
    /\ walk.current # None
    /\ ~GuardExceeded(walk.guard)
    /\ walk.current # RootRecord
    /\ walk.current \notin DOMAIN walk.directories
    /\ walk' = [walk EXCEPT !.pc = "returned",
                            !.result = [ok |-> FALSE, path |-> <<>>, missing |-> walk.current]]
    /\ UNCHANGED <<iter, dump, config, toolVars, files, env, query, workerVars, rx_alive, appVars>>

\* components.reverse(); Ok(format!(..))
WalkFormat ==
    /\ walk.pc = "format"
    /\ walk' = [walk EXCEPT !.pc = "returned",
                            !.result = [ok |-> TRUE,
                                        path |-> FormatFullPath(Reverse(walk.components), walk.drive_letter),
                                        missing |-> None]]
    /\ UNCHANGED <<iter, dump, config, toolVars, files, env, query, workerVars, rx_alive, appVars>>

InitWalk ==
    /\ files = <<>>
    /\ env = Environment({}, FALSE)
    /\ query = NoQuery
    /\ InitWorkers
    /\ InitApp
    /\ InitTools
    /\ iter = NoIter
    /\ dump = NoDump
    /\ config = NoConfig
    /\ \E dirs \in WalkDirectories, p \in ParentChoices, stem \in StemChoices :
          walk = BeginWalk(WalkFileName, ParentRefOf(p), dirs, DriveLetterOf(stem))

NextWalk ==
    \/ WalkBreak
    \/ WalkHop
    \/ WalkMissing
    \/ WalkFormat

\* A call that has begun runs on: the thread executing it is scheduled.
SpecWalk == InitWalk /\ [][NextWalk]_vars /\ WF_vars(NextWalk)

\* ------------------------------------- the resolver on one file (SpecResolver)
ResolverFiles ==
    {MftFile(stem, TRUE, TRUE, TRUE, entries) :
        stem \in StemChoices, entries \in TopologyStreams \cup AttributeStreams}

InitResolver ==
    /\ files \in {<<f>> : f \in ResolverFiles}
    /\ env = Environment({}, FALSE)
    /\ walk = NoWalk
    /\ query = NoQuery
    /\ InitWorkers
    /\ InitApp
    /\ InitTools
    /\ iter = NoIter
    /\ dump = NoDump
    /\ config = NoConfig

NextWorkers ==
    \/ \E i \in FileIndices : StartFile(i)
    \/ \E i \in FileIndices : StatFile(i)
    \/ \E i \in FileIndices : MapFile(i)
    \/ \E i \in FileIndices : ParserInit(i)
    \/ \E i \in FileIndices : NextEntry(i)
    \/ \E i \in FileIndices : SendError(i)
    \/ \E i \in FileIndices : ResolveEntry(i)
    \/ \E i \in FileIndices : EmitDiscovered(i)
    \/ \E i \in FileIndices : SendProgress(i)
    \/ \E i \in FileIndices : FlushBatch(i)
    \/ \E i \in FileIndices : SendComplete(i)

NextResolver == NextWorkers

SpecResolver == InitResolver /\ [][NextResolver]_vars

\* -------------------------------------------- the whole pipeline (Spec)
\* Two cache files, C.mft and D.mft, with short streams: a record under the
\* root, two records under the root, an unparsable record followed by an
\* orphan, and the empty stream; each step of opening a file may fail.
Named(k, parent) == OkEntry(SlotRecord(k), <<X30(SlotName(k), parent)>>)
PipelineStreams ==
    {<<>>,
     <<Named(1, RootRecord)>>,
     <<Named(1, RootRecord), Named(2, RootRecord)>>,
     <<ErrEntry(SlotRecord(1)), Named(2, SlotRecord(3))>>}
PipelineFiles(stem) ==
    {MftFile(stem, TRUE, TRUE, TRUE, entries) : entries \in PipelineStreams}
        \cup {MftFile(stem, FALSE, TRUE, TRUE, <<>>),
              MftFile(stem, TRUE, FALSE, TRUE, <<>>),
              MftFile(stem, TRUE, TRUE, FALSE, <<>>)}

SmallFiles(stem) ==
    {MftFile(stem, TRUE, TRUE, TRUE, <<>>),
     MftFile(stem, TRUE, TRUE, TRUE, <<Named(1, RootRecord)>>),
     MftFile(stem, FALSE, TRUE, TRUE, <<>>)}
\* Runs of the pipeline:
\*  - the user browses the tabs while two files with one record each are parsed;
\*  - the user may quit and the terminal may fail while one file, or two
\*    small files, are parsed;
\*  - the user presses any key, nothing to parse.
Scenarios ==
    {[files |-> <<MftFile(<<"c">>, TRUE, TRUE, TRUE, <<Named(1, RootRecord)>>),
                  MftFile(<<"d">>, TRUE, TRUE, TRUE, <<Named(1, RootRecord)>>)>>,
      env |-> Environment(OtherKeys, FALSE)]}
    \cup {[files |-> <<f>>, env |-> Environment(QuitKeys, TRUE)] : f \in PipelineFiles(<<"c">>)}
    \cup {[files |-> <<f, g>>, env |-> Environment(QuitKeys, TRUE)] :
            f \in SmallFiles(<<"c">>),
            g \in {MftFile(<<"d">>, TRUE, TRUE, TRUE, <<>>), MftFile(<<"d">>, FALSE, TRUE, TRUE, <<>>)}}
    \cup {[files |-> <<MftFile(<<"c">>, TRUE, TRUE, TRUE, <<>>)>>,
           env |-> Environment(QuitKeys \cup OtherKeys, TRUE)]}

Init ==
    /\ \E scenario \in Scenarios : files = scenario.files /\ env = scenario.env
    /\ walk = NoWalk
    /\ query = NoQuery
    /\ InitWorkers
    /\ InitApp
    /\ InitTools
    /\ iter = NoIter
    /\ dump = NoDump
    /\ config = NoConfig

Next == NextWorkers \/ NextApp

Spec == Init /\ [][Next]_vars

\* ------------------------------------------------ mft query (SpecQuery)
\* query_mft_files_fuzzy: the cache files of the drives the pattern resolves
\* to are parsed in parallel; every path goes straight into the injector.
\* The query's file-name filter (it has no is_empty test).
QueryIsFilteredName(filename) ==
    \/ (Len(filename) > 0 /\ filename[1] = "$")
    \/ filename = DotName
    \/ filename = DotDotName

\* mft_query.rs try_build_full_path: always format!("{drive_letter}:\\{}", ..)
query_try_build_full_path(filename, parent_ref, dirs, drive) ==
    LET w == WalkParents(<<filename>>, parent_ref, 0, dirs)
    IN  IF w.ok
            THEN [ok |-> TRUE,
                  path |-> <<drive, ":", Backslash>> \o Join(Reverse(w.components), Backslash),
                  missing |-> None]
            ELSE [ok |-> FALSE, path |-> <<>>, missing |-> w.missing]

\* One resolution attempt of the query worker: Ok -> injector.push + unblock
\* the children; Err -> file under the missing parent.
QueryResolveOne(st, pend, drive) ==
    LET r == query_try_build_full_path(pend.filename, pend.parent_ref, st.directories, drive)
    IN  IF r.ok
            THEN UnblockChildren(
                    [st EXCEPT !.discovered = Append(@, r.path),
                               !.discovered_recs = Append(@, pend.record_number)],
                    pend.record_number)
            ELSE [st EXCEPT !.pending = PendingPush(@, r.missing, pend)]

RECURSIVE QueryDrainResolveQueue(_, _)
QueryDrainResolveQueue(st, drive) ==
    IF Len(st.resolve_queue) = 0 THEN st
    ELSE LET pend == st.resolve_queue[Len(st.resolve_queue)]
             popped == [st EXCEPT !.resolve_queue = SubSeq(@, 1, Len(@) - 1)]
         IN  QueryDrainResolveQueue(QueryResolveOne(popped, pend, drive), drive)

RECURSIVE QueryWalkAttributes(_, _, _, _, _)
\* The second attribute loop of the query worker: first accepted FILE_NAME.
QueryWalkAttributes(st, record_number, attributes, k, drive) ==
    IF k > Len(attributes) THEN st
    ELSE IF attributes[k].kind # "x30" \/ QueryIsFilteredName(attributes[k].name)
        THEN QueryWalkAttributes(st, record_number, attributes, k + 1, drive)
    ELSE LET parent_ref == ParentRefOf(attributes[k].parent)
             pend == [record_number |-> record_number, filename |-> attributes[k].name,
                      parent_ref |-> parent_ref]
             inserted == [st EXCEPT !.directories =
                            [n \in (DOMAIN @) \cup {record_number} |->
                                IF n = record_number
                                    THEN [name |-> attributes[k].name, parent |-> parent_ref]
                                    ELSE @[n]]]
         IN  QueryDrainResolveQueue(QueryResolveOne(inserted, pend, drive), drive)

\* What drive_pattern.resolve() returns: the drives of the pattern, in order.
QueryDriveLists == {<<"C">>, <<"D">>, <<"C", "D">>}
QueryLetters == {"C", "D"}
\* What a cache file <L>.mft may hold: a stream, or bytes the parser rejects.
QueryStreams ==
    {<<Named(1, RootRecord)>>,
     <<Named(1, SlotRecord(2)), Named(2, RootRecord)>>,
     <<ErrEntry(SlotRecord(1)), Named(2, SlotRecord(MaxRecords + 1))>>}
QueryContents ==
    {[parser_ok |-> TRUE, entries |-> entries] : entries \in QueryStreams}
        \cup {[parser_ok |-> FALSE, entries |-> <<>>]}

\* mft_files: one path per drive, then retain(|p| p.exists())
RetainExisting(drives, cached) == SelectSeq(drives, LAMBDA d : d \in cached)

\* The state of the query worker of one cache file.
QueryFileState ==
    [pc |-> "unstarted", pos |-> 0, directories |-> EmptyMap, pending |-> EmptyMap]

BeginQuery(drives, cache) ==
    [pc |-> "start", drives |-> drives, cache |-> cache, mft_files |-> <<>>,
     file |-> <<>>, pushed |-> <<>>]

QueryIndices == IF query.pc = "none" THEN {} ELSE 1..Len(query.mft_files)

\* lines 38-45: resolve, collect, retain; an error when no cache file exists
QueryCollect ==
    /\ query.pc = "start"
    /\ LET retained == RetainExisting(query.drives, DOMAIN query.cache)
       IN  query' = [query EXCEPT !.mft_files = retained,
                                  !.file = [i \in 1..Len(retained) |-> QueryFileState],
                                  !.pc = IF Len(retained) = 0 THEN "failed" ELSE "parsing"]
    /\ UNCHANGED <<iter, dump, config, toolVars, files, env, walk, workerVars, rx_alive, appVars>>

\* let drive_letter = drives_cloned[drive_index];
QueryDriveLetter(drives, retained, drive_index) == drives[drive_index]

\* par_iter().enumerate().for_each: MftParser::from_path; a file the parser
\* rejects is skipped
QueryOpen(i) ==
    /\ query.pc = "parsing"
    /\ query.file[i].pc = "unstarted"
    /\ Cardinality({j \in QueryIndices : query.file[j].pc \in {"iter", "flush"}}) < NumThreads
    /\ query' = [query EXCEPT !.file[i].pc =
                    IF query.cache[query.mft_files[i]].parser_ok THEN "iter" ELSE "done"]
    /\ UNCHANGED <<iter, dump, config, toolVars, files, env, walk, workerVars, rx_alive, appVars>>

\* One entry of the record loop: an Err entry is only counted; an Ok entry is
\* resolved and every path found is pushed into the injector.
QueryEntry(i) ==
    /\ query.pc = "parsing"
    /\ query.file[i].pc = "iter"
    /\ LET entries == query.cache[query.mft_files[i]].entries
           f == query.file[i]
       IN  IF f.pos < Len(entries)
              THEN LET entry == entries[f.pos + 1]
                       drive == QueryDriveLetter(query.drives, query.mft_files, i)
                       st == IF entry.ok
                                THEN QueryWalkAttributes(
                                        [directories |-> f.directories, pending |-> f.pending,
                                         resolve_queue |-> <<>>, discovered |-> <<>>,
                                         discovered_recs |-> <<>>],
                                        entry.record_number, entry.attributes, 1, drive)
                                ELSE [directories |-> f.directories, pending |-> f.pending,
                                      resolve_queue |-> <<>>, discovered |-> <<>>,
                                      discovered_recs |-> <<>>]
                   IN  query' = [query EXCEPT
                          !.file[i] = [pc |-> "iter", pos |-> f.pos + 1,
                                       directories |-> st.directories, pending |-> st.pending],
                          !.pushed = @ \o [k \in 1..Len(st.discovered) |->
                                              [file_index |-> i, path |-> st.discovered[k]]]]
              ELSE query' = [query EXCEPT !.file[i].pc = "flush"]
    /\ UNCHANGED <<iter, dump, config, toolVars, files, env, walk, workerVars, rx_alive, appVars>>

\* One key of the final loop over pending: push the fallback path of each entry.
QueryFlush(i) ==
    /\ query.pc = "parsing"
    /\ query.file[i].pc = "flush"
    /\ \E key \in DOMAIN query.file[i].pending :
          LET entries == query.file[i].pending[key]
              drive == QueryDriveLetter(query.drives, query.mft_files, i)
          IN  query' = [query EXCEPT
                 !.file[i].pending = PendingWithout(@, key),
                 !.pushed = @ \o [k \in 1..Len(entries) |->
                                     [file_index |-> i,
                                      path |-> <<drive, ":", Backslash>> \o entries[k].filename]]]
    /\ UNCHANGED <<iter, dump, config, toolVars, files, env, walk, workerVars, rx_alive, appVars>>

\* The closure of one file returns.
QueryFileDone(i) ==
    /\ query.pc = "parsing"
    /\ query.file[i].pc = "flush"
    /\ DOMAIN query.file[i].pending = {}
    /\ query' = [query EXCEPT !.file[i].pc = "done"]
    /\ UNCHANGED <<iter, dump, config, toolVars, files, env, walk, workerVars, rx_alive, appVars>>

\* worker_done.store(true): every file has been visited
QueryDone ==
    /\ query.pc = "parsing"
    /\ \A i \in QueryIndices : query.file[i].pc = "done"
    /\ query' = [query EXCEPT !.pc = "done"]
    /\ UNCHANGED <<iter, dump, config, toolVars, files, env, walk, workerVars, rx_alive, appVars>>

InitQuery ==
    /\ files = <<>>
    /\ env = Environment({}, FALSE)
    /\ walk = NoWalk
    /\ InitWorkers
    /\ InitApp
    /\ InitTools
    /\ iter = NoIter
    /\ dump = NoDump
    /\ config = NoConfig
    /\ \E drives \in QueryDriveLists, cached \in SUBSET QueryLetters :
          \E cache \in [cached -> QueryContents] : query = BeginQuery(drives, cache)

NextQuery ==
    \/ QueryCollect
    \/ \E i \in QueryIndices : QueryOpen(i)
    \/ \E i \in QueryIndices : QueryEntry(i)
    \/ \E i \in QueryIndices : QueryFlush(i)
    \/ \E i \in QueryIndices : QueryFileDone(i)
    \/ QueryDone

SpecQuery == InitQuery /\ [][NextQuery]_vars

\* ------------------------------------ MftEntryIterator (SpecIterator)
\* Longest generated byte stream, largest entry size a first header announces,
\* most whole entries of a stream cut at the default entry size.
MaxStreamLen == 8
MaxEntrySize == 3
MaxDefaultEntries == 2
\* entry_size when EntryHeader::from_reader fails on the first record.
DefaultEntrySize == 1024

\* Result<EntryHeader>: of the header only total_entry_size is used.
HeaderErr == [ok |-> FALSE, total_entry_size |-> 0]
HeaderOk(total_entry_size) == [ok |-> TRUE, total_entry_size |-> total_entry_size]

\* The streams handed to MftEntryIterator::new: a length and what the first
\* header parses to. No header can be read from an empty stream. A header
\* announcing size 0 makes new divide by zero (a panic, no iterator exists),
\* so the announced sizes start at 1. Streams of whole default-size entries
\* (with and without a trailing byte) exercise the fallback size.
IteratorInputs ==
    {[len |-> len, header |-> h] :
        len \in 1..MaxStreamLen, h \in {HeaderOk(n) : n \in 1..MaxEntrySize}}
    \cup {[len |-> len, header |-> HeaderErr] : len \in 0..MaxStreamLen}
    \cup {[len |-> DefaultEntrySize * q + r, header |-> HeaderErr] :
             q \in 1..MaxDefaultEntries, r \in {0, 1, DefaultEntrySize - 1}}

\* MftEntryIterator::new
IterNew(len, header) ==
    LET entry_size == IF header.ok THEN header.total_entry_size ELSE DefaultEntrySize
    IN  [pc |-> "iterating", len |-> len, entry_size |-> entry_size,
         total_entries |-> len \div entry_size,
         current_entry |-> 0, yielded |-> <<>>]

\* (mutant) next keeps going while any byte is left and yields the short tail
IterNext_YieldsPartial ==
    /\ iter.pc = "iterating"
    /\ LET start == iter.current_entry * iter.entry_size
           end == IF start + iter.entry_size > iter.len THEN iter.len
                  ELSE start + iter.entry_size
       IN  IF start >= iter.len
           THEN iter' = [iter EXCEPT !.pc = "done"]
           ELSE iter' = [iter EXCEPT
                   !.current_entry = @ + 1,
                   !.yielded = Append(@, [size |-> iter.entry_size,
                                          entry_number |-> iter.current_entry,
                                          start |-> start, end |-> end])]
    /\ UNCHANGED <<dump, config, toolVars, files, env, walk, query, workerVars, rx_alive, appVars>>

\* Iterator::next: None once every whole entry was yielded (or the slice would
\* pass the end), else the slice of the current entry and its number.
IterNext ==
    /\ iter.pc = "iterating"
    /\ LET start == iter.current_entry * iter.entry_size
           end == start + iter.entry_size
       IN  IF iter.current_entry >= iter.total_entries \/ end > iter.len
           THEN iter' = [iter EXCEPT !.pc = "done"]
           ELSE iter' = [iter EXCEPT
                   !.current_entry = @ + 1,
                   !.yielded = Append(@, [size |-> iter.entry_size,
                                          entry_number |-> iter.current_entry,
                                          start |-> start, end |-> end])]
    /\ UNCHANGED <<dump, config, toolVars, files, env, walk, query, workerVars, rx_alive, appVars>>

InitIterator ==
    /\ files = <<>>
    /\ env = Environment({}, FALSE)
    /\ walk = NoWalk
    /\ query = NoQuery
    /\ InitWorkers
    /\ InitApp
    /\ InitTools
    /\ dump = NoDump
    /\ config = NoConfig
    /\ \E input \in IteratorInputs : iter = IterNew(input.len, input.header)

NextIterator == IterNext

SpecIterator == InitIterator /\ [][NextIterator]_vars

\* ------------------- mft sync, mft dump, elevation test (SpecDump)
\* The processes of one invocation: the process the user starts and the
\* elevated children it spawns. A child runs the same executable; relaunch_as_admin
\* hands it the parent's own arguments, relaunch_as_admin_with_cli those of
\* `elevation check`.
DumpDriveLists == {<<"C">>, <<"C", "D">>}
DrivesIn(drives) == {drives[i] : i \in 1..Len(drives)}

\* Exit code of a process whose main returns Ok / returns Err.
ExitSuccess == 0
ExitFailure == 1

NewTask == [pc |-> "unstarted", child |-> 0, read |-> FALSE, wrote |-> FALSE]

NewProc(cmd, elevated, parent, drives) ==
    [cmd |-> cmd, elevated |-> elevated, parent |-> parent, exit_code |-> None,
     full |-> FALSE, relaunches |-> 0, reported |-> FALSE,
     task |-> [i \in 1..(IF cmd \in {"sync", "dump"} THEN Len(drives) ELSE 0) |-> NewTask]]

\* What one invocation is given: the command, its drives and overwrite flag,
\* which drives are NTFS volumes, which output files exist, whether the
\* cache directory is configured (mft sync), whether the user accepts the UAC prompt.
BeginDump(cmd, drives, overwrite, ntfs, initial, elevated, cache_ok, uac_accepts) ==
    [pc |-> "run", cmd |-> cmd, drives |-> drives, overwrite |-> overwrite,
     ntfs |-> ntfs, initial |-> initial, file |-> initial,
     cache_ok |-> cache_ok, uac_accepts |-> uac_accepts,
     procs |-> <<NewProc(cmd, elevated, 0, drives)>>]

ProcIndices == IF dump.pc = "run" THEN 1..Len(dump.procs) ELSE {}
TaskIndices(p) == DOMAIN dump.procs[p].task
ProcRunning(p) == dump.procs[p].exit_code = None

\* (mutant) no process is ever seen as elevated
is_elevated_Never(p) == FALSE

\* win_elevation::is_elevated: the token of the process
is_elevated(p) == dump.procs[p].elevated

\* (mutant) an existing output file is never a reason to refuse
OutputRefused_Never(d) == FALSE

\* dump_mft_to_file: output_path.exists() && !overwrite_existing
OutputRefused(d) == dump.file[d] # "absent" /\ ~dump.overwrite

\* Tasks that occupy a thread of the pool.
ActiveTasks(p) ==
    {i \in TaskIndices(p) :
        dump.procs[p].task[i].pc \in {"relaunch", "waiting", "validate", "read", "write"}}

\* The next item is handed to a closure: in any order on a free thread of the
\* pool while no closure has failed (par_iter().try_for_each of mft sync), in
\* order and one at a time until the first Err (the for loop with ? of mft dump).
MayStart(p, i) ==
    /\ dump.procs[p].task[i].pc = "unstarted"
    /\ ~dump.procs[p].full
    /\ IF dump.procs[p].cmd = "sync"
       THEN dump.cache_ok /\ Cardinality(ActiveTasks(p)) < NumThreads
       ELSE \A j \in 1..(i - 1) : dump.procs[p].task[j].pc = "ok"

\* A closure returns Err: the task is over and no further item is started.
TaskErr(p, i) ==
    dump' = [dump EXCEPT !.procs[p].task[i].pc = "err", !.procs[p].full = TRUE]

\* mft sync: get_cache_dir()? fails before any drive is looked at.
SyncNoCache(p) ==
    /\ ProcRunning(p)
    /\ dump.procs[p].cmd = "sync"
    /\ ~dump.cache_ok
    /\ dump' = [dump EXCEPT !.procs[p].exit_code = ExitFailure]
    /\ UNCHANGED <<iter, config, toolVars, files, env, walk, query, workerVars, rx_alive, appVars>>

\* dump_mft_to_file up to the elevation test: refuse an existing file,
\* then branch on is_elevated.
StartTask(p, i) ==
    /\ ProcRunning(p)
    /\ dump.procs[p].cmd \in {"sync", "dump"}
    /\ MayStart(p, i)
    /\ IF OutputRefused(dump.drives[i])
       THEN TaskErr(p, i)
       ELSE IF ~is_elevated(p)
            THEN dump' = [dump EXCEPT !.procs[p].task[i].pc = "relaunch"]
            ELSE dump' = [dump EXCEPT !.procs[p].task[i].pc = "validate"]
    /\ UNCHANGED <<iter, config, toolVars, files, env, walk, query, workerVars, rx_alive, appVars>>

\* relaunch_as_admin: the runas verb with the arguments of this process;
\* Ok(child) when the prompt is accepted, Err otherwise.
Relaunch(p, i) ==
    /\ ProcRunning(p)
    /\ dump.procs[p].task[i].pc = "relaunch"
    /\ IF dump.uac_accepts
       THEN dump' = [dump EXCEPT
               !.procs = Append([@ EXCEPT ![p].relaunches = @ + 1,
                                          ![p].task[i].pc = "waiting",
                                          ![p].task[i].child = Len(dump.procs) + 1],
                                NewProc(dump.procs[p].cmd, TRUE, p, dump.drives))]
       ELSE dump' = [dump EXCEPT !.procs[p].relaunches = @ + 1,
                                 !.procs[p].task[i].pc = "err",
                                 !.procs[p].full = TRUE]
    /\ UNCHANGED <<iter, config, toolVars, files, env, walk, query, workerVars, rx_alive, appVars>>

\* child.wait() returns once the child has exited; std::process::exit(exit_code)
\* ends the process, its other threads included.
WaitChild(p, i) ==
    /\ ProcRunning(p)
    /\ dump.procs[p].task[i].pc = "waiting"
    /\ dump.procs[dump.procs[p].task[i].child].exit_code # None
    /\ dump' = [dump EXCEPT
          !.procs[p].exit_code = dump.procs[dump.procs[p].task[i].child].exit_code,
          !.procs[p].task[i].pc = "exited"]
    /\ UNCHANGED <<iter, config, toolVars, files, env, walk, query, workerVars, rx_alive, appVars>>

\* enable_backup_privileges and validate_ntfs_filesystem(drive_letter)?
ValidateNtfs(p, i) ==
    /\ ProcRunning(p)
    /\ dump.procs[p].task[i].pc = "validate"
    /\ IF dump.drives[i] \in dump.ntfs
       THEN dump' = [dump EXCEPT !.procs[p].task[i].pc = "read"]
       ELSE TaskErr(p, i)
    /\ UNCHANGED <<iter, config, toolVars, files, env, walk, query, workerVars, rx_alive, appVars>>

\* read_mft_data(drive_letter)
ReadMft(p, i) ==
    /\ ProcRunning(p)
    /\ dump.procs[p].task[i].pc = "read"
    /\ dump' = [dump EXCEPT !.procs[p].task[i].pc = "write",
                            !.procs[p].task[i].read = TRUE]
    /\ UNCHANGED <<iter, config, toolVars, files, env, walk, query, workerVars, rx_alive, appVars>>

\* write_mft_to_file: create or truncate the output file and write the data
WriteMft(p, i) ==
    /\ ProcRunning(p)
    /\ dump.procs[p].task[i].pc = "write"
    /\ dump' = [dump EXCEPT !.procs[p].task[i].pc = "ok",
                            !.procs[p].task[i].wrote = TRUE,
                            !.file[dump.drives[i]] = "new"]
    /\ UNCHANGED <<iter, config, toolVars, files, env, walk, query, workerVars, rx_alive, appVars>>

\* try_for_each / the loop is over and run returns: Err when a closure
\* failed, and main's Err is exit code 1.
RunReturns(p) ==
    /\ ProcRunning(p)
    /\ dump.procs[p].cmd \in {"sync", "dump"}
    /\ dump.procs[p].cmd = "sync" => dump.cache_ok
    /\ ActiveTasks(p) = {}
    /\ dump.procs[p].full \/ \A i \in TaskIndices(p) : dump.procs[p].task[i].pc = "ok"
    /\ dump' = [dump EXCEPT !.procs[p].exit_code =
                   IF dump.procs[p].full THEN ExitFailure ELSE ExitSuccess]
    /\ UNCHANGED <<iter, config, toolVars, files, env, walk, query, workerVars, rx_alive, appVars>>

\* test_elevation / ElevationTestArgs::run: an elevated process reports and
\* returns Ok; otherwise relaunch_as_admin_with_cli(elevation check) and, once
\* the child is spawned, std::process::exit(0) at once.
TestElevation(p) ==
    /\ ProcRunning(p)
    /\ dump.procs[p].cmd = "test"
    /\ IF is_elevated(p)
       THEN dump' = [dump EXCEPT !.procs[p].reported = TRUE,
                                 !.procs[p].exit_code = ExitSuccess]
       ELSE IF dump.uac_accepts
            THEN dump' = [dump EXCEPT
                    !.procs = Append([@ EXCEPT ![p].relaunches = @ + 1,
                                               ![p].exit_code = ExitSuccess],
                                     NewProc("check", TRUE, p, dump.drives))]
            ELSE dump' = [dump EXCEPT !.procs[p].relaunches = @ + 1,
                                      !.procs[p].exit_code = ExitFailure]
    /\ UNCHANGED <<iter, config, toolVars, files, env, walk, query, workerVars, rx_alive, appVars>>

\* check_elevation / ElevationCheckArgs::run in the child: print and return Ok
CheckElevation(p) ==
    /\ ProcRunning(p)
    /\ dump.procs[p].cmd = "check"
    /\ dump' = [dump EXCEPT !.procs[p].reported = TRUE,
                            !.procs[p].exit_code = ExitSuccess]
    /\ UNCHANGED <<iter, config, toolVars, files, env, walk, query, workerVars, rx_alive, appVars>>

DumpInputs ==
    {BeginDump(cmd, drives, overwrite, ntfs, initial, elevated, cache_ok, uac_accepts) :
        cmd \in {"sync", "dump"}, drives \in DumpDriveLists, overwrite \in BOOLEAN,
        ntfs \in SUBSET {"C", "D"}, initial \in [{"C", "D"} -> {"absent", "old"}],
        elevated \in BOOLEAN, cache_ok \in BOOLEAN, uac_accepts \in BOOLEAN}

\* Inputs that differ only in what the run never looks at are the same run.
RelevantDump(d) ==
    /\ d.ntfs \subseteq DrivesIn(d.drives)
    /\ \A l \in {"C", "D"} \ DrivesIn(d.drives) : d.initial[l] = "absent"
    /\ d.cmd = "dump" => d.cache_ok
    /\ d.procs[1].elevated => d.uac_accepts

TestInputs ==
    {BeginDump("test", <<>>, FALSE, {}, [l \in {"C", "D"} |-> "absent"],
               elevated, TRUE, uac_accepts) :
        elevated \in BOOLEAN, uac_accepts \in BOOLEAN}

InitDump ==
    /\ files = <<>>
    /\ env = Environment({}, FALSE)
    /\ walk = NoWalk
    /\ query = NoQuery
    /\ InitWorkers
    /\ InitApp
    /\ InitTools
    /\ iter = NoIter
    /\ config = NoConfig
    /\ dump \in {d \in DumpInputs : RelevantDump(d)} \cup {d \in TestInputs : RelevantDump(d)}

NextDump ==
    \/ \E p \in ProcIndices : SyncNoCache(p)
    \/ \E p \in ProcIndices : \E i \in TaskIndices(p) : StartTask(p, i)
    \/ \E p \in ProcIndices : \E i \in TaskIndices(p) : Relaunch(p, i)
    \/ \E p \in ProcIndices : \E i \in TaskIndices(p) : WaitChild(p, i)
    \/ \E p \in ProcIndices : \E i \in TaskIndices(p) : ValidateNtfs(p, i)
    \/ \E p \in ProcIndices : \E i \in TaskIndices(p) : ReadMft(p, i)
    \/ \E p \in ProcIndices : \E i \in TaskIndices(p) : WriteMft(p, i)
    \/ \E p \in ProcIndices : RunReturns(p)
    \/ \E p \in ProcIndices : TestElevation(p)
    \/ \E p \in ProcIndices : CheckElevation(p)

SpecDump == InitDump /\ [][NextDump]_vars

\* ------------------------------- the cache directory (SpecConfig)
\* config.rs: CACHE_DIR_CACHE, get_cache_dir, set_cache_dir, called in any
\* order by one process after another. Paths are character sequences.
\* Calls of get_cache_dir / set_cache_dir one process makes, processes in a row.
MaxCalls == 3
MaxProcesses == 2

Space == " "
\* A path unit that is not valid Unicode, and what to_string_lossy writes for it.
LoneSurrogate == "^"
ReplacementChar == "?"

\* The directories that exist, by canonical path: two plain ones, one whose
\* name ends in a space, one whose name is not valid Unicode.
ExistingDirs == {<<"a">>, <<"b">>, <<"a", Space>>, <<"b", LoneSurrogate>>}

\* Option<PathBuf> and eyre::Result<Option<PathBuf>>
NoPath == [some |-> FALSE, path |-> <<>>]
SomePath(p) == [some |-> TRUE, path |-> p]
OkNone == [ok |-> TRUE, some |-> FALSE, path |-> <<>>]
OkSome(p) == [ok |-> TRUE, some |-> TRUE, path |-> p]
ErrResult == [ok |-> FALSE, some |-> FALSE, path |-> <<>>]

\* str::trim
RECURSIVE TrimStart(_)
TrimStart(t) == IF t # <<>> /\ t[1] = Space THEN TrimStart(Tail(t)) ELSE t
RECURSIVE TrimEnd(_)
TrimEnd(t) ==
    IF t # <<>> /\ t[Len(t)] = Space THEN TrimEnd(SubSeq(t, 1, Len(t) - 1)) ELSE t
Trim(t) == TrimEnd(TrimStart(t))

\* fs::canonicalize: "./" prefixes resolve away; Err when nothing is there.
RECURSIVE Canonicalize(_)
Canonicalize(t) ==
    IF Len(t) >= 2 /\ t[1] = "." /\ t[2] = "/"
    THEN Canonicalize(SubSeq(t, 3, Len(t)))
    ELSE IF t \in ExistingDirs THEN OkSome(t) ELSE ErrResult

\* Path::to_string_lossy
ToStringLossy(t) ==
    [k \in 1..Len(t) |-> IF t[k] = LoneSurrogate THEN ReplacementChar ELSE t[k]]

\* std::env::var("MFT_CACHE_DIR"): NotPresent, NotUnicode or the value
EnvAbsent == [kind |-> "absent", val |-> <<>>]
EnvNotUnicode == [kind |-> "not_unicode", val |-> <<>>]
EnvText(t) == [kind |-> "text", val |-> t]
EnvChoices ==
    {EnvAbsent, EnvNotUnicode}
    \cup {EnvText(t) : t \in {<<Space>>, <<"a">>, <<Space, "b">>, <<"a", Space>>, <<"x">>}}

\* cache-dir.txt: missing, or its contents
FileAbsent == [exists |-> FALSE, contents |-> <<>>]
FileText(t) == [exists |-> TRUE, contents |-> t]
FileChoices == {FileAbsent, FileText(<<"b">>)}

\* The paths handed to set_cache_dir.
SetChoices == {<<"a">>, <<".", "/", "b">>, <<"a", Space>>, <<"b", LoneSurrogate>>, <<"x">>}

read_env_cache_dir(e) ==
    IF e.kind = "text"
    THEN IF Trim(e.val) = <<>> THEN OkNone ELSE Canonicalize(Trim(e.val))
    ELSE IF e.kind = "absent" THEN OkNone ELSE ErrResult

read_cache_dir_file(f) ==
    IF ~f.exists THEN OkNone
    ELSE IF Trim(f.contents) = <<>> THEN OkNone
    ELSE Canonicalize(Trim(f.contents))

read_initial_cache_dir(e, f) ==
    IF ~read_env_cache_dir(e).ok THEN ErrResult
    ELSE IF read_env_cache_dir(e).some THEN read_env_cache_dir(e)
    ELSE read_cache_dir_file(f)

\* How often read_initial_cache_dir consults the environment and the file.
InitialReads(e, f) == IF read_env_cache_dir(e) = OkNone THEN 2 ELSE 1

\* LazyLock::new(|| read_initial_cache_dir().ok().flatten())
LazyInitial(e, f) ==
    IF read_initial_cache_dir(e, f).ok /\ read_initial_cache_dir(e, f).some
    THEN SomePath(read_initial_cache_dir(e, f).path)
    ELSE NoPath

NoCall == [op |-> "none", reads |-> 0, read_before |-> FALSE, set_before |-> FALSE,
           result |-> OkNone]

\* A fresh process with its environment; cache-dir.txt is what it finds.
BeginProcess(number, e, f, last_set) ==
    [pc |-> "run", proc |-> number, env |-> e, file |-> f, lazy |-> "uninit",
     cache |-> NoPath, reads |-> 0, calls |-> 0, set_called |-> FALSE,
     last_set |-> last_set, last |-> NoCall]

\* get_cache_dir. The first touch of CACHE_DIR_CACHE runs the LazyLock
\* initializer; a cached Some is returned as it is; otherwise
\* read_initial_cache_dir()? is called (again) and a Some is stored.
GetCacheDir ==
    /\ config.pc = "run"
    /\ config.calls < MaxCalls
    /\ LET forced == config.lazy = "uninit"
           cached == IF forced THEN LazyInitial(config.env, config.file) ELSE config.cache
           value == read_initial_cache_dir(config.env, config.file)
           reads == (IF forced THEN InitialReads(config.env, config.file) ELSE 0)
                    + (IF cached.some THEN 0 ELSE InitialReads(config.env, config.file))
       IN  config' = [config EXCEPT
              !.lazy = "init",
              !.cache = IF cached.some THEN cached
                        ELSE IF value.ok /\ value.some THEN SomePath(value.path)
                        ELSE cached,
              !.reads = @ + reads,
              !.calls = @ + 1,
              !.last = [op |-> "get", reads |-> reads,
                        read_before |-> config.reads > 0,
                        set_before |-> config.set_called,
                        result |-> IF cached.some THEN OkSome(cached.path)
                                   ELSE IF value.ok /\ value.some THEN value
                                   ELSE ErrResult]]
    /\ UNCHANGED <<iter, dump, toolVars, files, env, walk, query, workerVars, rx_alive, appVars>>

\* set_cache_dir: canonicalize(cache_dir)?, write the lossy text of the
\* canonical path to cache-dir.txt, then store it in CACHE_DIR_CACHE (whose
\* first touch runs the initializer after the file was written).
SetCacheDir(cache_dir) ==
    /\ config.pc = "run"
    /\ config.calls < MaxCalls
    /\ LET canon == Canonicalize(cache_dir)
           written == FileText(ToStringLossy(canon.path))
           reads == IF config.lazy = "uninit" THEN InitialReads(config.env, written) ELSE 0
       IN  IF ~canon.ok
           THEN config' = [config EXCEPT
                   !.calls = @ + 1,
                   !.set_called = TRUE,
                   !.last = [op |-> "set", reads |-> 0,
                             read_before |-> config.reads > 0,
                             set_before |-> config.set_called,
                             result |-> ErrResult]]
           ELSE config' = [config EXCEPT
                   !.file = written,
                   !.lazy = "init",
                   !.cache = SomePath(canon.path),
                   !.reads = @ + reads,
                   !.calls = @ + 1,
                   !.set_called = TRUE,
                   !.last_set = [some |-> TRUE, path |-> canon.path, proc |-> config.proc],
                   !.last = [op |-> "set", reads |-> reads,
                             read_before |-> config.reads > 0,
                             set_before |-> config.set_called,
                             result |-> OkNone]]
    /\ UNCHANGED <<iter, dump, toolVars, files, env, walk, query, workerVars, rx_alive, appVars>>

\* The process ends and a later one starts: statics are fresh, the file stays.
NewProcess ==
    /\ config.pc = "run"
    /\ config.proc < MaxProcesses
    /\ \E e \in EnvChoices :
          config' = BeginProcess(config.proc + 1, e, config.file, config.last_set)
    /\ UNCHANGED <<iter, dump, toolVars, files, env, walk, query, workerVars, rx_alive, appVars>>

NeverSet == [some |-> FALSE, path |-> <<>>, proc |-> 0]

InitConfig ==
    /\ files = <<>>
    /\ env = Environment({}, FALSE)
    /\ walk = NoWalk
    /\ query = NoQuery
    /\ InitWorkers
    /\ InitApp
    /\ InitTools
    /\ iter = NoIter
    /\ dump = NoDump
    /\ \E e \in EnvChoices, f \in FileChoices : config = BeginProcess(1, e, f, NeverSet)

NextConfig ==
    \/ GetCacheDir
    \/ \E cache_dir \in SetChoices : SetCacheDir(cache_dir)
    \/ NewProcess

SpecConfig == InitConfig /\ [][NextConfig]_vars

\* ============================================================ input-side view
\* What the stream of file i says about its records, read off the input
\* alone: the first FILE_NAME attribute that parses and passes the filter.
RECURSIVE AcceptedIndex(_, _)
AcceptedIndex(attributes, k) ==
    IF k > Len(attributes) THEN 0
    ELSE IF attributes[k].kind = "x30" /\ ~IsFilteredName(attributes[k].name) THEN k
    ELSE AcceptedIndex(attributes, k + 1)

NamedSlots(i) ==
    {k \in 1..Len(files[i].entries) :
        files[i].entries[k].ok /\ AcceptedIndex(files[i].entries[k].attributes, 1) > 0}
AcceptedAttribute(i, k) ==
    files[i].entries[k].attributes[AcceptedIndex(files[i].entries[k].attributes, 1)]
SlotsOfRecord(i, n) == {k \in NamedSlots(i) : files[i].entries[k].record_number = n}

RECURSIVE AncestorNames(_, _, _)
\* The names of the ancestors of a record with parent entry `parent`,
\* outermost first; ok is FALSE when the chain leaves the stream or does not
\* reach the root within `fuel` steps (a cycle).
AncestorNames(i, parent, fuel) ==
    IF parent = NoParentEntry \/ parent = RootRecord THEN [ok |-> TRUE, names |-> <<>>]
    ELSE IF fuel = 0 \/ SlotsOfRecord(i, parent) = {} THEN [ok |-> FALSE, names |-> <<>>]
    ELSE LET a == AcceptedAttribute(i, CHOOSE k \in SlotsOfRecord(i, parent) : TRUE)
             up == AncestorNames(i, a.parent, fuel - 1)
         IN  [ok |-> up.ok, names |-> Append(up.names, a.name)]

ChainOf(i, k) == AncestorNames(i, AcceptedAttribute(i, k).parent, Len(files[i].entries))

\* The text "<L>:\a1\...\ak\name" ("\a1\...\ak\name" without a drive letter).
RECURSIVE BackslashSeparated(_)
BackslashSeparated(names) ==
    IF Len(names) = 0 THEN <<>>
    ELSE <<Backslash>> \o Head(names) \o BackslashSeparated(Tail(names))
ExpectedFullPath(i, k) ==
    (IF drive_letter(i) = UnknownDrive THEN <<>> ELSE <<drive_letter(i), ":">>)
        \o BackslashSeparated(Append(ChainOf(i, k).names, AcceptedAttribute(i, k).name))
ExpectedFallbackPath(i, filename) == <<drive_letter(i), ":", Backslash>> \o filename

\* Number of backslash-separated components of a path text.
ComponentCount(path) == Cardinality({j \in 1..Len(path) : path[j] = Backslash})

RECURSIVE Emissions(_)
\* Every (record, path) pair carried by the DiscoveredFiles events of a log, in order.
Emissions(log) ==
    IF Len(log) = 0 THEN <<>>
    ELSE LET m == Head(log)
         IN  (IF m.type = "DiscoveredFiles"
                THEN [j \in 1..Len(m.files) |-> [rec |-> m.recs[j], path |-> m.files[j]]]
                ELSE <<>>) \o Emissions(Tail(log))
EmissionsOf(i, n) == SelectSeq(Emissions(sent[i]), LAMBDA e : e.rec = n)

RECURSIVE PendingEntries(_)
\* All entries held in a pending map, as one sequence.
PendingEntries(p) ==
    IF DOMAIN p = {} THEN <<>>
    ELSE LET key == CHOOSE key \in DOMAIN p : TRUE
         IN  p[key] \o PendingEntries([x \in (DOMAIN p) \ {key} |-> p[x]])
PendingOf(i, n) == SelectSeq(PendingEntries(pending[i]), LAMBDA e : e.record_number = n)


\* ===================================================================== claims
\* C1: whatever the arrival order, a named record whose whole parent chain up
\* to the root consists of records of the stream with an accepted name (chain
\* shorter than the hop guard) has been emitted, when its file is done, with
\* its full path <L>:\a1\...\ak\name (chain length + 1 components) and never
\* with the single-component fallback.
C1_FullPathForResolvableChains ==
    \A i \in FileIndices :
        pc[i] = "done" =>
            \A k \in NamedSlots(i) :
                (ChainOf(i, k).ok /\ Len(ChainOf(i, k).names) < HopGuard) =>
                    LET es == EmissionsOf(i, files[i].entries[k].record_number)
                    IN  /\ Len(es) >= 1
                        /\ \A j \in 1..Len(es) :
                              /\ es[j].path = ExpectedFullPath(i, k)
                              /\ ComponentCount(es[j].path) = Len(ChainOf(i, k).names) + 1

\* C1 witness: a record that arrived before both of its two ancestors was
\* emitted with the three-component path.
C1_Witness ==
    \E i \in FileIndices :
        /\ pc[i] = "done"
        /\ \E k \in NamedSlots(i) :
              /\ ChainOf(i, k).ok
              /\ Len(ChainOf(i, k).names) = 2
              /\ \A n \in {AcceptedAttribute(i, k).parent} :
                    \A a \in SlotsOfRecord(i, n) : a > k /\ AcceptedAttribute(i, a).parent > n
              /\ Len(EmissionsOf(i, files[i].entries[k].record_number)) = 1
              /\ EmissionsOf(i, files[i].entries[k].record_number)[1].path = ExpectedFullPath(i, k)

\* C2: the path of a record is emitted at most once over the whole run of a
\* file (immediate resolution, queue resolution and the final flush
\* together), also for a record with several FILE_NAME attributes.
C2_EmittedAtMostOnce ==
    \A i \in FileIndices :
        \A k \in 1..Len(files[i].entries) :
            Len(EmissionsOf(i, files[i].entries[k].record_number)) <= 1

\* C2 witness: a record with two accepted FILE_NAME attributes and a record
\* resolved from the queue have each been emitted once, file done.
C2_Witness ==
    \E i \in FileIndices :
        /\ pc[i] = "done"
        /\ \E k \in NamedSlots(i) :
              /\ Cardinality({a \in 1..Len(files[i].entries[k].attributes) :
                                 /\ files[i].entries[k].attributes[a].kind = "x30"
                                 /\ ~IsFilteredName(files[i].entries[k].attributes[a].name)}) = 2
              /\ Len(EmissionsOf(i, files[i].entries[k].record_number)) = 1
        /\ \A k \in NamedSlots(i) : Len(EmissionsOf(i, files[i].entries[k].record_number)) = 1

\* C3: every entry held in pending at the end of the stream is emitted
\* exactly once, with the single-component fallback path <L>:\<filename>, and
\* before Complete: while the flush runs every named record is either emitted
\* once or held once, each flush step emits exactly the entries it removes
\* with their fallback paths, and Complete is sent only with pending empty.
C3_FlushStep ==
    \A i \in FileIndices :
        (pc[i] = "flush" /\ pending'[i] # pending[i]) =>
            \E key \in DOMAIN pending[i] :
                /\ DOMAIN pending'[i] = (DOMAIN pending[i]) \ {key}
                /\ Len(sent'[i]) = Len(sent[i]) + 1
                /\ LET m == sent'[i][Len(sent'[i])]
                   IN  /\ m.type = "DiscoveredFiles"
                       /\ m.recs = [j \in 1..Len(pending[i][key]) |-> pending[i][key][j].record_number]
                       /\ Len(m.files) = Len(m.recs)
                       /\ drive_letter(i) # UnknownDrive =>
                             \A j \in 1..Len(m.files) :
                                 m.files[j] = ExpectedFallbackPath(i, pending[i][key][j].filename)
C3_Conservation ==
    \A i \in FileIndices :
        /\ pc[i] \in {"flush", "done"} =>
              \A k \in NamedSlots(i) :
                  Len(EmissionsOf(i, files[i].entries[k].record_number))
                    + Len(PendingOf(i, files[i].entries[k].record_number)) = 1
        /\ HasSent(i, "Complete") => DOMAIN pending[i] = {}
C3_StrandedFlushedBeforeComplete == []C3_Conservation /\ [][C3_FlushStep]_vars

\* C3 witness: Complete was sent after an orphan (parent absent from the
\* stream) went out with its fallback path on a known drive.
C3_Witness ==
    \E i \in FileIndices :
        /\ HasSent(i, "Complete")
        /\ drive_letter(i) # UnknownDrive
        /\ \E k \in NamedSlots(i) :
              /\ ~ChainOf(i, k).ok
              /\ Len(EmissionsOf(i, files[i].entries[k].record_number)) = 1
              /\ EmissionsOf(i, files[i].entries[k].record_number)[1].path
                    = ExpectedFallbackPath(i, AcceptedAttribute(i, k).name)
              /\ sent[i][Len(sent[i]) - 1].type = "DiscoveredFiles"

\* Occurrences of x in a sequence.
Count(seq, x) == Cardinality({j \in 1..Len(seq) : seq[j] = x})

\* C4: every path delivered in a DiscoveredFiles event is pushed into the
\* matcher's injector exactly once: never twice, and after a render of the
\* Search tab no delivered path is missing.
C4_EachDeliveredPathPushedOnce ==
    LET delivered == AllFilesWithin(mft_files, 1)
    IN  /\ \A j \in 1..Len(injected) :
              Count(injected, injected[j]) <= Count(delivered, injected[j])
        /\ (app_pc = "poll" /\ tabs_selected = SearchTabIndex) =>
              \A j \in 1..Len(delivered) :
                  Count(injected, delivered[j]) = Count(delivered, delivered[j])

\* C5: once the receiver has been dropped no event is delivered any more, a
\* task that attempts a send ends up disconnected (it yields at most the
\* entry it sends the status of), a disconnected task never moves again, and
\* after a disconnect no further file is started.
LocalSteps ==
    {<<"unstarted", "stat">>, <<"map", "parser">>, <<"resolve", "emit">>, <<"iter", "flush">>}
C5_Step ==
    /\ ~rx_alive => (sent' = sent /\ chan' = chan)
    /\ \A i \in FileIndices :
          /\ (~rx_alive /\ pc'[i] # pc[i]) =>
                \/ pc'[i] \in {"disconnected", "failed"}
                \/ <<pc[i], pc'[i]>> \in LocalSteps /\ pos'[i] = pos[i]
          /\ pc[i] = "disconnected" =>
                /\ pc'[i] = "disconnected"
                /\ pos'[i] = pos[i]
                /\ sent'[i] = sent[i]
                /\ directories'[i] = directories[i]
                /\ pending'[i] = pending[i]
          /\ (pc[i] = "unstarted" /\ \E j \in FileIndices : pc[j] = "disconnected") =>
                pc'[i] = "unstarted"
C5_DisconnectedWorkersStop == [][C5_Step]_vars

\* C5 witness: a task was cut off by a failed send after it had reported an
\* entry and before Complete, and the other file was never started.
C5_Witness ==
    \E i, j \in FileIndices :
        /\ pc[i] = "disconnected"
        /\ HasSent(i, "EntryStatus")
        /\ ~HasSent(i, "Complete")
        /\ pc[j] = "unstarted"

\* C6: the presentation loop is left only after a quit key was pressed and
\* the quit animation has run to its end; while the animation runs the loop
\* goes on.
LoopLeft == app_pc \in {"exited", "restored", "joining", "returned"}
C6_ExitOnlyAfterQuitAnimation ==
    LoopLeft => (quit_pressed /\ is_quitting /\ ~EffectRunning(quit_effect))

\* C6 witness: the loop was left after a quit key, the animation being over.
C6_Witness == app_pc = "exited" /\ quit_pressed /\ quit_effect = 0

\* C7: a quit key drops the worker handle without joining, and the
\* presentation thread never blocks joining the worker thread.
C7_NeverJoins ==
    /\ quit_pressed => handle = "dropped"
    /\ handle # "joined"
    /\ app_pc # "joining"

\* C7 witness: run has returned with the handle dropped while a task is
\* still working.
C7_Witness ==
    /\ app_pc = "returned"
    /\ handle = "dropped"
    /\ \E i \in FileIndices : pc[i] \in {"iter", "resolve", "emit", "progress", "flush"}

\* C8: Complete(i) is the final event of file i (with or without Error
\* events): it is sent at most once and nothing with index i follows it.
C8_CompleteIsFinal ==
    \A i \in FileIndices :
        \A j \in 1..Len(sent[i]) :
            sent[i][j].type = "Complete" => j = Len(sent[i])

\* C8 witness: a file without Error event is done, Complete having followed
\* the record events and a flush batch.
C8_Witness ==
    \E i \in FileIndices :
        /\ pc[i] = "done"
        /\ ~HasSent(i, "Error")
        /\ Len(sent[i]) >= 2
        /\ sent[i][Len(sent[i])].type = "Complete"
        /\ sent[i][Len(sent[i]) - 1].type \in {"DiscoveredFiles", "Progress"}

\* C9: FileSizeDiscovered(i) precedes every other event of file i: it is the
\* first event the task sends, and the consumer knows the total size of a
\* file as soon as it has handled anything else of that file.
C9_FileSizeFirst ==
    \A i \in FileIndices :
        /\ Len(sent[i]) > 0 => sent[i][1].type = "FileSizeDiscovered"
        /\ (\/ mft_files[i].entry_size # None
            \/ mft_files[i].processed_size # 0
            \/ mft_files[i].processing_end # None
            \/ Len(mft_files[i].files_within) > 0
            \/ Len(mft_files[i].entry_health_statuses) > 0
            \/ Len(mft_files[i].errors) > 0) => mft_files[i].total_size # None

\* C9 witness: events of both files are interleaved in the channel, the
\* second file's first.
C9_Witness ==
    /\ Len(chan) >= 3
    /\ chan[1].file_index = 2
    /\ chan[2].file_index = 1
    /\ chan[3].file_index = 2

\* C10: EntrySizeDiscovered(i) precedes every Progress(i): in the order of
\* sending, and for the consumer, which has the record size of file i when it
\* handles a Progress(i).
C10_EntrySizeBeforeProgress ==
    \A i \in FileIndices :
        /\ \A j \in 1..Len(sent[i]) :
              sent[i][j].type = "Progress" =>
                  \E k \in 1..(j - 1) : sent[i][k].type = "EntrySizeDiscovered"
        /\ \A j \in 1..Len(chan) :
              (chan[j].type = "Progress" /\ chan[j].file_index = i) =>
                  \/ mft_files[i].entry_size # None
                  \/ \E k \in 1..(j - 1) :
                        chan[k].type = "EntrySizeDiscovered" /\ chan[k].file_index = i
        /\ mft_files[i].processed_size # 0 => mft_files[i].entry_size # None

\* C10 witness: the consumer has handled a Progress of a file.
C10_Witness ==
    \E i \in FileIndices :
        /\ mft_files[i].processed_size = files[i].entry_size
        /\ mft_files[i].entry_size = files[i].entry_size

\* ---------------------------------------------------- per-record event view
\* The positions of the EntryStatus events in a log, in order: the k-th one
\* opens the events of the k-th record the iterator yielded.
StatusPositions(log) == {j \in 1..Len(log) : log[j].type = "EntryStatus"}
RECURSIVE SortedPositions(_)
SortedPositions(set) ==
    IF set = {} THEN <<>>
    ELSE LET least == CHOOSE x \in set : \A y \in set : x <= y
         IN  <<least>> \o SortedPositions(set \ {least})
\* The events of the k-th record: from its EntryStatus up to the next
\* EntryStatus, or up to the end of the record loop for the last record.
RecordEvents(i, k) ==
    LET starts == SortedPositions(StatusPositions(sent[i]))
        first == starts[k]
        last == IF k < Len(starts) THEN starts[k + 1] - 1 ELSE Len(sent[i])
        segment == SubSeq(sent[i], first, last)
    IN  IF k < Len(starts) THEN segment
        ELSE SelectSeq(segment, LAMBDA m : m.type # "Complete")
TypesOf(log) == [j \in 1..Len(log) |-> log[j].type]
ProgressEvents(log) == SelectSeq(log, LAMBDA m : m.type = "Progress")

\* C11: a file processed to Complete has sent exactly one Progress(record
\* size) for each record the parser yielded, parsed or failed, and once the
\* presentation loop has handled Complete its processed_size is
\* record count x record size.
C11_OneProgressPerRecord ==
    \A i \in FileIndices :
        /\ pc[i] = "done" =>
              /\ Cardinality(StatusPositions(sent[i])) = Len(files[i].entries)
              /\ \A k \in 1..Len(files[i].entries) :
                    /\ Len(ProgressEvents(RecordEvents(i, k))) = 1
                    /\ ProgressEvents(RecordEvents(i, k))[1].size = files[i].entry_size
              /\ Len(ProgressEvents(sent[i])) = Len(files[i].entries)
        /\ mft_files[i].processing_end # None =>
              mft_files[i].processed_size = Len(files[i].entries) * files[i].entry_size

\* C11 witness: the loop has handled Complete of a file with a failed and a
\* parsed record and has accumulated two record sizes.
C11_Witness ==
    \E i \in FileIndices :
        /\ mft_files[i].processing_end # None
        /\ Len(files[i].entries) = 2
        /\ ~files[i].entries[1].ok
        /\ files[i].entries[2].ok
        /\ mft_files[i].processed_size = 2 * files[i].entry_size

\* C12: a record that fails to parse does not end the iteration: its events
\* are exactly RecordHealth(false), Error, Progress, every later record is
\* still yielded and reported, and Complete still follows.
C12_FailedRecordDoesNotHalt ==
    \A i \in FileIndices :
        pc[i] = "done" =>
            /\ Cardinality(StatusPositions(sent[i])) = Len(files[i].entries)
            /\ sent[i][Len(sent[i])].type = "Complete"
            /\ \A k \in 1..Len(files[i].entries) :
                  ~files[i].entries[k].ok =>
                      /\ Len(RecordEvents(i, k)) >= 3
                      /\ TypesOf(SubSeq(RecordEvents(i, k), 1, 3)) = <<"EntryStatus", "Error", "Progress">>
                      /\ RecordEvents(i, k)[1].is_healthy = FALSE
                      /\ k < Len(files[i].entries) => Len(RecordEvents(i, k)) = 3

\* C12 witness: a file is done whose first record failed and whose later
\* record was parsed and emitted.
C12_Witness ==
    \E i \in FileIndices :
        /\ pc[i] = "done"
        /\ Len(files[i].entries) >= 2
        /\ ~files[i].entries[1].ok
        /\ \E k \in NamedSlots(i) :
              k > 1 /\ Len(EmissionsOf(i, files[i].entries[k].record_number)) = 1

\* C13: the health vector of a file is, at any time, a prefix of the parse
\* results of its records in record order, and once Complete has been handled
\* it holds exactly one bit per record, bit k true iff record k parsed.
C13_HealthVectorMatchesParseResults ==
    \A i \in FileIndices :
        LET health == mft_files[i].entry_health_statuses
        IN  /\ Len(health) <= Len(files[i].entries)
            /\ \A k \in 1..Len(health) : health[k] = files[i].entries[k].ok
            /\ mft_files[i].processing_end # None => Len(health) = Len(files[i].entries)

\* C13 witness: all events of a file with a failed and a parsed record have
\* been handled; its health vector is <<false, true>>.
C13_Witness ==
    \E i \in FileIndices :
        /\ mft_files[i].processing_end # None
        /\ mft_files[i].entry_health_statuses = <<FALSE, TRUE>>

\* The last component of a path text: what follows its last backslash.
LastComponent(path) ==
    LET seps == {j \in 1..Len(path) : path[j] = Backslash}
        last == IF seps = {} THEN 0 ELSE CHOOSE j \in seps : \A x \in seps : x <= j
    IN  SubSeq(path, last + 1, Len(path))
HasErrAttribute(entry) ==
    \E a \in 1..Len(entry.attributes) : entry.attributes[a].kind = "err"

\* C14: an attribute that fails to parse is skipped and leaves its record
\* alone: the record is reported healthy, a valid File Name attribute after
\* it is still the one the record is emitted with, and the iteration goes on
\* to the end of the stream.
C14_FailedAttributeIsSkipped ==
    \A i \in FileIndices :
        pc[i] = "done" =>
            /\ Cardinality(StatusPositions(sent[i])) = Len(files[i].entries)
            /\ \A k \in 1..Len(files[i].entries) :
                  (files[i].entries[k].ok /\ HasErrAttribute(files[i].entries[k])) =>
                      /\ RecordEvents(i, k)[1].is_healthy = TRUE
                      /\ ~\E j \in 1..Len(RecordEvents(i, k)) : RecordEvents(i, k)[j].type = "Error"
                      /\ k \in NamedSlots(i) =>
                            LET es == EmissionsOf(i, files[i].entries[k].record_number)
                            IN  /\ Len(es) = 1
                                /\ LastComponent(es[1].path) = AcceptedAttribute(i, k).name

\* C14 witness: a record whose first attribute failed to parse and whose
\* second attribute is a valid File Name was emitted under that name, and the
\* record after it was resolved below it.
C14_Witness ==
    \E i \in FileIndices :
        /\ pc[i] = "done"
        /\ Len(files[i].entries) = 2
        /\ Len(files[i].entries[1].attributes) = 2
        /\ files[i].entries[1].attributes[1].kind = "err"
        /\ 1 \in NamedSlots(i)
        /\ drive_letter(i) # UnknownDrive
        /\ EmissionsOf(i, files[i].entries[1].record_number)[1].path = ExpectedFullPath(i, 1)
        /\ Len(EmissionsOf(i, files[i].entries[2].record_number)) = 1
        /\ ComponentCount(EmissionsOf(i, files[i].entries[2].record_number)[1].path) = 2

\* The stepped walk returns what try_build_full_path computes.
WalkMatchesOperator ==
    walk.pc = "returned" =>
        walk.result = try_build_full_path(walk.filename, walk.parent_ref, walk.directories,
                                          walk.drive_letter)

\* C15: path building terminates for every directories map, cyclic ones
\* included: the hop counter is bounded, the components grow by one per hop,
\* and every call returns, with a path or with an ancestor that is missing
\* from the map.
WalkBounded ==
    walk.pc # "none" =>
        /\ walk.guard <= HopGuard + 1
        /\ Len(walk.components) = walk.guard + 1
WalkReturned ==
    /\ walk.pc = "returned"
    /\ \/ walk.result.ok /\ Len(walk.result.path) > 0
       \/ ~walk.result.ok /\ walk.result.missing \notin DOMAIN walk.directories
                          /\ walk.result.missing \notin {None, RootRecord}
C15_WalkTerminates == []WalkBounded /\ <>[]WalkReturned

\* A record of the map from which the parent references lead back to itself.
RECURSIVE Reaches(_, _, _, _)
Reaches(dirs, from, to, fuel) ==
    /\ fuel > 0
    /\ from \in DOMAIN dirs
    /\ \/ dirs[from].parent = to
       \/ dirs[from].parent # None /\ Reaches(dirs, dirs[from].parent, to, fuel - 1)
OnCycle(dirs, n) == Reaches(dirs, n, n, MaxRecords)

\* C15 witness: a walk that entered a cycle of two records has returned a path.
C15_Witness ==
    /\ walk.pc = "returned"
    /\ walk.result.ok
    /\ walk.parent_ref \in DOMAIN walk.directories
    /\ OnCycle(walk.directories, walk.parent_ref)
    /\ walk.directories[walk.parent_ref].parent # walk.parent_ref
    /\ walk.directories[walk.parent_ref].name # DotName

\* C16: one walk follows at most as many parent hops as the hop guard says
\* (4096 in the source), so an emitted path has at most that many ancestor
\* components plus the record's own name.
C16_AtMostHopGuardHops ==
    /\ walk.pc # "none" => walk.hops <= HopGuard
    /\ \A i \in FileIndices :
          \A j \in 1..Len(Emissions(sent[i])) :
              ComponentCount(Emissions(sent[i])[j].path) <= HopGuard + 1

\* The text starts with the given prefix.
StartsWith(path, prefix) ==
    /\ Len(path) >= Len(prefix)
    /\ SubSeq(path, 1, Len(prefix)) = prefix

\* C17: every path carried by a DiscoveredFiles event (resolved at once, from
\* the queue, or by the end-of-stream flush) begins with <L>:\ when the drive
\* letter of its file is known and with \ when it is not.
C17_EmittedPathsCarryDrivePrefix ==
    \A i \in FileIndices :
        \A j \in 1..Len(Emissions(sent[i])) :
            IF drive_letter(i) # UnknownDrive
                THEN StartsWith(Emissions(sent[i])[j].path, <<drive_letter(i), ":", Backslash>>)
                ELSE StartsWith(Emissions(sent[i])[j].path, <<Backslash>>)

\* C18: in mft query, every path produced from the cache file <L>.mft is
\* prefixed with that file's own drive letter, <L>:\, whatever the drive
\* pattern and whichever of its drives have a cache file.
C18_QueryPathsCarryOwnDriveLetter ==
    query.pc # "none" =>
        \A j \in 1..Len(query.pushed) :
            StartsWith(query.pushed[j].path,
                       <<query.mft_files[query.pushed[j].file_index], ":", Backslash>>)

\* C19: every iteration of the presentation loop drains the channel, advances
\* the matcher by one tick, renders a frame and polls the input, in this
\* order and whichever tab is active: when an iteration polls the input, the
\* matcher has been ticked once since the iteration began.
C19_MatcherTickedEveryIteration ==
    app_pc = "poll" => matcher_ticks = 1

\* C20: for an empty (zero-length) cache file that can be read the worker
\* sends FileSizeDiscovered and then Complete, nothing between them.
EmptyReadableFile(i) ==
    Len(files[i].entries) = 0 /\ files[i].stat_ok /\ files[i].open_ok
C20_EmptyFileSizeThenComplete ==
    \A i \in FileIndices :
        EmptyReadableFile(i) =>
            /\ Len(sent[i]) >= 2 => sent[i][2].type = "Complete"
            /\ pc[i] \in {"done", "failed"} =>
                  TypesOf(sent[i]) = <<"FileSizeDiscovered", "Complete">>

\* C21: an iterator over a stream of len bytes yields exactly len \div
\* record_size items, for the slots 0, 1, 2, ... in increasing order, item i
\* covering the bytes [i * record_size, (i + 1) * record_size); a trailing
\* partial record is dropped and an empty stream yields nothing.
C21_IteratorYieldsWholeRecords ==
    iter.pc \in {"iterating", "done"} =>
        /\ \A k \in 1..Len(iter.yielded) :
              /\ iter.yielded[k].entry_number = k - 1
              /\ iter.yielded[k].start = (k - 1) * iter.entry_size
              /\ iter.yielded[k].end = k * iter.entry_size
              /\ iter.yielded[k].size = iter.entry_size
              /\ iter.yielded[k].end <= iter.len
        /\ Len(iter.yielded) <= iter.len \div iter.entry_size
        /\ iter.pc = "done" => Len(iter.yielded) = iter.len \div iter.entry_size
        /\ (iter.pc = "done" /\ iter.len = 0) => iter.yielded = <<>>

\* An iteration that ended after two or more records and dropped a partial one.
C21_Witness ==
    /\ iter.pc = "done"
    /\ Len(iter.yielded) >= 2
    /\ iter.len % iter.entry_size # 0

\* ------------------------------------------------ view of one invocation
\* The processes a process has spawned.
ChildrenOf(p) == {c \in ProcIndices : dump.procs[c].parent = p}
\* The children spawned by the dump tasks of p (dump_mft_to_file).
DumpChildrenOf(p) ==
    {dump.procs[p].task[i].child : i \in {j \in TaskIndices(p) : dump.procs[p].task[j].child # 0}}
\* The output file of drive d existed when the command began and overwrite is off.
RefusedAtStart(d) == dump.initial[d] # "absent" /\ ~dump.overwrite

\* C22: one invocation attempts at most one elevated relaunch, also when
\* mft sync dumps several drives in parallel from a non-elevated process, and
\* an elevated child never relaunches.
C22_AtMostOneRelaunch ==
    \A p \in ProcIndices :
        /\ dump.procs[p].relaunches <= 1
        /\ dump.procs[p].parent # 0 => dump.procs[p].relaunches = 0

\* C23: a non-elevated process whose dump spawned the relaunch reads no MFT and
\* writes no file, and when it has exited the elevated child has exited and the
\* two exit codes are the same.
C23_ParentWaitsAndPropagates ==
    \A p \in ProcIndices : \A c \in DumpChildrenOf(p) :
        /\ \A i \in TaskIndices(p) : ~dump.procs[p].task[i].read /\ ~dump.procs[p].task[i].wrote
        /\ dump.procs[p].exit_code # None =>
              /\ dump.procs[c].exit_code # None
              /\ dump.procs[p].exit_code = dump.procs[c].exit_code

\* C24: elevation test from a non-elevated process spawns the elevated child,
\* and when it has exited the child has exited and the exit codes are the same.
C24_TestWaitsForChild ==
    \A p \in ProcIndices :
        (dump.procs[p].cmd = "test" /\ ~dump.procs[p].elevated /\ dump.uac_accepts
            /\ dump.procs[p].exit_code # None) =>
                /\ ChildrenOf(p) # {}
                /\ \A c \in ChildrenOf(p) :
                      /\ dump.procs[c].exit_code # None
                      /\ dump.procs[p].exit_code = dump.procs[c].exit_code

\* C25: elevation test in an already elevated process reports success, ends
\* with exit code 0 and spawns no child.
C25_ElevatedTestSpawnsNothing ==
    \A p \in ProcIndices :
        (dump.procs[p].cmd = "test" /\ dump.procs[p].elevated) =>
            /\ ChildrenOf(p) = {}
            /\ dump.procs[p].relaunches = 0
            /\ dump.procs[p].exit_code \in {None, ExitSuccess}
            /\ dump.procs[p].exit_code = ExitSuccess => dump.procs[p].reported

\* elevation test has finished in an elevated process.
C25_Witness ==
    /\ dump.pc = "run"
    /\ dump.cmd = "test"
    /\ dump.procs[1].elevated
    /\ dump.procs[1].exit_code = ExitSuccess

\* C26: when the output file exists and overwrite is false the dump of that
\* drive fails before any relaunch, volume read or file write, in every
\* process of the invocation, and the file keeps its contents.
C26_ExistingFileRefusedFirst ==
    \A p \in ProcIndices : \A i \in TaskIndices(p) :
        RefusedAtStart(dump.drives[i]) =>
            /\ dump.procs[p].task[i].pc \in {"unstarted", "err"}
            /\ dump.procs[p].task[i].child = 0
            /\ ~dump.procs[p].task[i].read
            /\ ~dump.procs[p].task[i].wrote
            /\ dump.file[dump.drives[i]] = dump.initial[dump.drives[i]]
            /\ dump.procs[p].task[i].pc = "err" => dump.procs[p].full

\* The dump of an existing file was refused in a process that is not elevated
\* while the dump of the other drive went on to the relaunch.
C26_Witness ==
    /\ dump.pc = "run"
    /\ \E i, j \in TaskIndices(1) :
          /\ RefusedAtStart(dump.drives[i])
          /\ dump.procs[1].task[i].pc = "err"
          /\ ~dump.procs[1].elevated
          /\ dump.procs[1].task[j].child # 0

\* C27: a drive that fails NTFS validation gets no output file, and every
\* other drive of the same mft sync or mft dump is still dumped: when an
\* elevated invocation in which no output file is refused has ended, it has
\* written the file of each of its NTFS drives.
C27_NonNtfsDriveOnlySkipsItself ==
    \A p \in ProcIndices :
        (dump.procs[p].cmd \in {"sync", "dump"} /\ dump.procs[p].elevated
            /\ dump.procs[p].parent = 0) =>
            \A i \in TaskIndices(p) :
                IF dump.drives[i] \notin dump.ntfs
                THEN /\ ~dump.procs[p].task[i].wrote
                     /\ dump.file[dump.drives[i]] = dump.initial[dump.drives[i]]
                ELSE (dump.procs[p].exit_code # None /\ dump.cache_ok
                        /\ \A j \in TaskIndices(p) : ~RefusedAtStart(dump.drives[j]))
                     => dump.procs[p].task[i].wrote

\* C28: once a process has read the cache-directory configuration, no later
\* get_cache_dir of that process reads MFT_CACHE_DIR or cache-dir.txt again
\* unless set_cache_dir was called in between, whatever the first read gave.
C28_NoReadAfterFirstRead ==
    (config.pc = "run" /\ config.last.op = "get"
        /\ config.last.read_before /\ ~config.last.set_before) =>
            config.last.reads = 0

\* C29: whenever MFT_CACHE_DIR holds a non-empty valid path, get_cache_dir
\* returns the canonical form of that path, not the persisted one.
C29_EnvOverridesPersisted ==
    (config.pc = "run" /\ config.last.op = "get" /\ config.env.kind = "text"
        /\ config.env.val # <<>> /\ Canonicalize(config.env.val).ok) =>
            config.last.result = Canonicalize(config.env.val)

\* C30: after set_cache_dir(p) succeeded, get_cache_dir returns canonicalize(p)
\* in the same process, and in a later process that reads the persisted file
\* (its environment gives no cache directory).
C30_GetReturnsWhatWasSet ==
    (config.pc = "run" /\ config.last.op = "get" /\ config.last_set.some
        /\ (config.last_set.proc = config.proc
              \/ read_env_cache_dir(config.env) = OkNone)) =>
            config.last.result = OkSome(config.last_set.path)

\* ================================================================ mft diff
\* mft_diff.rs: diff_mft_files and count_remaining_differences. A file is a
\* sequence of bytes; both are read through a BufReader in chunks.
\* ------------------------------------------------------------------ bounds
\* Longest file of a generated pair (diff inputs).
MaxFileLen == 3
\* Size of the two read buffers. The source uses 4096; the model scales the
\* number down so that a file spans several chunks.
ChunkSize == 2

\* max_diffs.unwrap_or(10)
DefaultMaxDiffs == 10
\* The byte values of the generated files.
ByteValues == {0, 1}
\* --max-diffs: absent, or one of these numbers.
MaxDiffsChoices == {None, 0, 1, 2}

DiffMin(a, b) == IF a < b THEN a ELSE b
\* reader.read(&mut buffer): the bytes a read at offset off returns.
BytesRead(file, off) == DiffMin(ChunkSize, Len(file) - off)

\* usize::abs_diff
AbsDiff(a, b) == IF a < b THEN b - a ELSE a - b

\* The differing bytes among the first n of the chunks at off1 and off2.
ChunkDiffs(f1, f2, off1, off2, n) ==
    Cardinality({k \in 1..n : f1[off1 + k] # f2[off2 + k]})

RECURSIVE count_remaining_differences(_, _, _, _, _)
\* count_remaining_differences: reads both readers on from off1 and off2;
\* gives the count and where the readers are left.
count_remaining_differences(f1, f2, off1, off2, remaining_diffs) ==
    LET bytes_read1 == BytesRead(f1, off1)
        bytes_read2 == BytesRead(f2, off2)
    IN  IF bytes_read1 # bytes_read2
        THEN [count |-> remaining_diffs + AbsDiff(bytes_read1, bytes_read2),
              off1 |-> off1 + bytes_read1, off2 |-> off2 + bytes_read2]
        ELSE IF bytes_read1 = 0
        THEN [count |-> remaining_diffs, off1 |-> off1, off2 |-> off2]
        ELSE count_remaining_differences(f1, f2, off1 + bytes_read1, off2 + bytes_read2,
                 remaining_diffs + ChunkDiffs(f1, f2, off1, off2, bytes_read1))

\* diff_mft_files up to the loop: both files opened, nothing read.
DiffNew(file1, file2, verbose, max_diffs) ==
    [pc |-> "loop", file1 |-> file1, file2 |-> file2, verbose |-> verbose,
     max_diffs_to_show |-> IF max_diffs = None THEN DefaultMaxDiffs ELSE max_diffs,
     off1 |-> 0, off2 |-> 0, position |-> 0, differences_found |-> 0,
     first_difference |-> None, shown |-> <<>>, more |-> <<>>,
     length_msg |-> FALSE, capped |-> FALSE, report |-> "none"]

RECURSIVE ScanChunk(_, _, _)
\* The for loop over one chunk of n bytes, from index i on. The readers
\* already stand behind the chunk (next1, next2 of the caller).
ScanChunk(d, i, n) ==
    IF i >= n THEN d
    ELSE IF d.file1[d.off1 + i + 1] = d.file2[d.off2 + i + 1]
    THEN ScanChunk(d, i + 1, n)
    ELSE LET byte_position == d.position + i
             found == d.differences_found + 1
             d1 == [d EXCEPT !.first_difference = IF @ = None THEN byte_position ELSE @,
                             !.shown = IF d.verbose /\ d.differences_found < d.max_diffs_to_show
                                       THEN Append(@, byte_position) ELSE @,
                             !.differences_found = found]
         IN  IF found >= d.max_diffs_to_show /\ d.verbose
             THEN LET rest == count_remaining_differences(d.file1, d.file2,
                                                          d.off1 + n, d.off2 + n, 0)
                  IN  [d1 EXCEPT !.more = Append(@, rest.count), !.capped = TRUE,
                                 !.off1 = rest.off1 - n, !.off2 = rest.off2 - n]
             ELSE ScanChunk(d1, i + 1, n)

\* One iteration of the loop of diff_mft_files: read a chunk of each file,
\* compare the chunks, advance.
DiffChunk ==
    /\ diff.pc = "loop"
    /\ LET bytes_read1 == BytesRead(diff.file1, diff.off1)
           bytes_read2 == BytesRead(diff.file2, diff.off2)
       IN  IF bytes_read1 # bytes_read2
           THEN diff' = [diff EXCEPT !.length_msg = TRUE, !.pc = "summary",
                                     !.off1 = @ + bytes_read1, !.off2 = @ + bytes_read2]
           ELSE IF bytes_read1 = 0
           THEN diff' = [diff EXCEPT !.pc = "summary"]
           ELSE LET d == ScanChunk(diff, 0, bytes_read1)
                IN  diff' = [d EXCEPT !.off1 = @ + bytes_read1, !.off2 = @ + bytes_read1,
                                      !.position = @ + bytes_read1,
                                      !.pc = IF ~d.verbose /\ d.differences_found > 0
                                             THEN "summary" ELSE "loop"]
    /\ UNCHANGED <<display, tab, cli, files, env, walk, query, workerVars, rx_alive, appVars, cliVars>>

\* The summary after the loop.
DiffSummary ==
    /\ diff.pc = "summary"
    /\ diff' = [diff EXCEPT !.pc = "done",
                            !.report = IF diff.differences_found = 0
                                       THEN "identical" ELSE "different"]
    /\ UNCHANGED <<display, tab, cli, files, env, walk, query, workerVars, rx_alive, appVars, cliVars>>

RECURSIVE ByteSeqs(_)
ByteSeqs(n) ==
    IF n = 0 THEN {<<>>}
    ELSE LET shorter == ByteSeqs(n - 1)
         IN  shorter \cup {Append(s, b) : s \in {t \in shorter : Len(t) = n - 1}, b \in ByteValues}

InitDiff ==
    /\ files = <<>>
    /\ env = Environment({}, FALSE)
    /\ walk = NoWalk
    /\ query = NoQuery
    /\ InitWorkers
    /\ InitApp
    /\ iter = NoIter
    /\ dump = NoDump
    /\ config = NoConfig
    /\ display = NoDisplay
    /\ tab = NoSearch
    /\ cli = NoCli
    /\ \E file1 \in ByteSeqs(MaxFileLen), file2 \in ByteSeqs(MaxFileLen),
          verbose \in BOOLEAN, max_diffs \in MaxDiffsChoices :
          diff = DiffNew(file1, file2, verbose, max_diffs)

NextDiff ==
    \/ DiffChunk
    \/ DiffSummary

SpecDiff == InitDiff /\ [][NextDiff]_vars

\* The offsets at which the two files of the run differ.
DifferingOffsets ==
    {k \in 0..(DiffMin(Len(diff.file1), Len(diff.file2)) - 1) :
        diff.file1[k + 1] # diff.file2[k + 1]}

\* C31: mft diff reports the two files as identical exactly when they are
\* byte-identical: same length and the same byte at every offset.
C31_IdenticalIffByteIdentical ==
    diff.pc = "done" => (diff.report = "identical" <=> diff.file1 = diff.file2)

\* C32: for two files of equal length compared with --verbose, the reported
\* first difference is the smallest differing offset and the reported total
\* is the number of differing offsets.
C32_VerboseFirstAndTotal ==
    (diff.pc = "done" /\ diff.verbose /\ Len(diff.file1) = Len(diff.file2)
        /\ diff.report = "different")
    => /\ diff.first_difference \in DifferingOffsets
       /\ \A k \in DifferingOffsets : diff.first_difference <= k
       /\ diff.differences_found = Cardinality(DifferingOffsets)


\* ================================================================== argv
\* cli/: Cli, GlobalArgs, Action, MftAction and the argument structs, their
\* to_args() and the parse of an argv by the clap definitions (try_parse_from).
\* An argv is a sequence of tokens, a token a sequence of characters.

\* The subcommand names and the long option names of the clap definitions.
Tok ==
    [debug |-> <<"-", "-", "d", "e", "b", "u", "g">>,
     mft |-> <<"m", "f", "t">>,
     elevation |-> <<"e", "l", "e", "v", "a", "t", "i", "o", "n">>,
     dump |-> <<"d", "u", "m", "p">>,
     diff |-> <<"d", "i", "f", "f">>,
     show |-> <<"s", "h", "o", "w">>,
     query |-> <<"q", "u", "e", "r", "y">>,
     sync |-> <<"s", "y", "n", "c">>,
     check |-> <<"c", "h", "e", "c", "k">>,
     test |-> <<"t", "e", "s", "t">>,
     overwrite_existing |-> <<"-", "-", "o", "v", "e", "r", "w", "r", "i", "t", "e", "-", "e", "x", "i", "s", "t", "i", "n", "g">>,
     verbose |-> <<"-", "-", "v", "e", "r", "b", "o", "s", "e">>,
     max_diffs |-> <<"-", "-", "m", "a", "x", "-", "d", "i", "f", "f", "s">>,
     show_paths |-> <<"-", "-", "s", "h", "o", "w", "-", "p", "a", "t", "h", "s">>,
     max_entries |-> <<"-", "-", "m", "a", "x", "-", "e", "n", "t", "r", "i", "e", "s">>,
     threads |-> <<"-", "-", "t", "h", "r", "e", "a", "d", "s">>,
     drive_pattern |-> <<"-", "-", "d", "r", "i", "v", "e", "-", "p", "a", "t", "t", "e", "r", "n">>,
     limit |-> <<"-", "-", "l", "i", "m", "i", "t">>,
     display_interval |-> <<"-", "-", "d", "i", "s", "p", "l", "a", "y", "-", "i", "n", "t", "e", "r", "v", "a", "l">>,
     top |-> <<"-", "-", "t", "o", "p">>]

DigitChars == <<"0", "1", "2", "3", "4", "5", "6", "7", "8", "9">>
IsDigit(c) == \E k \in 1..10 : DigitChars[k] = c
DigitValue(c) == (CHOOSE k \in 1..10 : DigitChars[k] = c) - 1

RECURSIVE UsizeToString(_)
\* usize::to_string
UsizeToString(n) ==
    IF n < 10 THEN <<DigitChars[n + 1]>>
    ELSE UsizeToString(n \div 10) \o <<DigitChars[(n % 10) + 1]>>

RECURSIVE DigitsValue(_, _)
DigitsValue(t, acc) ==
    IF Len(t) = 0 THEN acc ELSE DigitsValue(Tail(t), acc * 10 + DigitValue(Head(t)))

\* usize::from_str over the tokens of the model: None for what is no number.
ParseUsize(t) ==
    IF Len(t) > 0 /\ \A k \in 1..Len(t) : IsDigit(t[k]) THEN DigitsValue(t, 0) ELSE None

\* Duration::from_secs(1), the default of --display-interval ("1s").
DefaultDisplayInterval == 1
\* The defaults of --limit and --top.
DefaultLimit == 100
DefaultTopN == 10

\* humantime::format_duration of a whole number of seconds below one hour.
FormatDuration(secs) ==
    LET m == secs \div 60
        s == secs % 60
    IN  IF secs = 0 THEN <<"0", "s">>
        ELSE (IF m > 0 THEN UsizeToString(m) \o <<"m">> ELSE <<>>)
             \o (IF m > 0 /\ s > 0 THEN <<" ">> ELSE <<>>)
             \o (IF s > 0 THEN UsizeToString(s) \o <<"s">> ELSE <<>>)

\* The leading digits of t.
RECURSIVE LeadingDigits(_)
LeadingDigits(t) ==
    IF Len(t) > 0 /\ IsDigit(Head(t)) THEN <<Head(t)>> \o LeadingDigits(Tail(t)) ELSE <<>>

RECURSIVE ParseDuration(_, _)
\* humantime::parse_duration: a sequence of <number><unit> items, blanks
\* between them allowed; units of the model: s and m. None for an error.
ParseDuration(t, acc) ==
    IF Len(t) = 0 THEN acc
    ELSE IF Head(t) = " " THEN ParseDuration(Tail(t), acc)
    ELSE LET digits == LeadingDigits(t)
             rest == SubSeq(t, Len(digits) + 1, Len(t))
         IN  IF Len(digits) = 0 \/ Len(rest) = 0 THEN None
             ELSE IF Head(rest) = "s"
             THEN ParseDuration(Tail(rest), (IF acc = None THEN 0 ELSE acc) + DigitsValue(digits, 0))
             ELSE IF Head(rest) = "m"
             THEN ParseDuration(Tail(rest), (IF acc = None THEN 0 ELSE acc)
                                            + 60 * DigitsValue(digits, 0))
             ELSE None

\* --------------------------------------------------------------- to_args
\* GlobalArgs::to_args
GlobalToArgs(g) == IF g.debug THEN <<Tok.debug>> ELSE <<>>

\* MftDumpArgs::to_args
DumpToArgs(a) ==
    <<a.drive_letters, a.output_path>>
    \o (IF a.overwrite_existing THEN <<Tok.overwrite_existing>> ELSE <<>>)

\* MftDiffArgs::to_args
DiffToArgs(a) ==
    <<a.file1, a.file2>>
    \o (IF a.verbose THEN <<Tok.verbose>> ELSE <<>>)
    \o (IF a.max_diffs # None THEN <<Tok.max_diffs, UsizeToString(a.max_diffs)>> ELSE <<>>)

\* MftShowArgs::to_args
ShowToArgs(a) ==
    (IF a.mft_pattern.some THEN <<a.mft_pattern.path>> ELSE <<>>)
    \o (IF a.verbose THEN <<Tok.verbose>> ELSE <<>>)
    \o (IF a.show_paths THEN <<Tok.show_paths>> ELSE <<>>)
    \o (IF a.max_entries # None THEN <<Tok.max_entries, UsizeToString(a.max_entries)>> ELSE <<>>)
    \o (IF a.threads # None THEN <<Tok.threads, UsizeToString(a.threads)>> ELSE <<>>)

\* MftQueryArgs::to_args
QueryToArgs(a) ==
    <<a.drive_pattern, a.query>>
    \o (IF a.limit # DefaultLimit THEN <<Tok.limit, UsizeToString(a.limit)>> ELSE <<>>)
    \o (IF a.display_interval # DefaultDisplayInterval
        THEN <<Tok.display_interval, FormatDuration(a.display_interval)>> ELSE <<>>)
    \o (IF a.top_n # DefaultTopN THEN <<Tok.top, UsizeToString(a.top_n)>> ELSE <<>>)

\* MftSyncArgs::to_args
SyncToArgs(a) ==
    <<a.drive_pattern>>
    \o (IF a.overwrite_existing THEN <<Tok.overwrite_existing>> ELSE <<>>)

\* MftAction::to_args: the subcommand name, then the arguments. mft sync is
\* dispatched like the other four (MftSyncArgs and its to_args are in
\* cli/mft_sync_action.rs).
MftActionToArgs(sub, a) ==
    IF sub = "dump" THEN <<Tok.dump>> \o DumpToArgs(a)
    ELSE IF sub = "diff" THEN <<Tok.diff>> \o DiffToArgs(a)
    ELSE IF sub = "show" THEN <<Tok.show>> \o ShowToArgs(a)
    ELSE IF sub = "query" THEN <<Tok.query>> \o QueryToArgs(a)
    ELSE <<Tok.sync>> \o SyncToArgs(a)

\* ElevationAction::add_args
ElevationActionToArgs(sub) == IF sub = "check" THEN <<Tok.check>> ELSE <<Tok.test>>

\* Action::to_args
ActionToArgs(c) ==
    IF c.action = "mft" THEN <<Tok.mft>> \o MftActionToArgs(c.sub, c.args)
    ELSE <<Tok.elevation>> \o ElevationActionToArgs(c.sub)

\* Cli::to_args
CliToArgsOf(c) == GlobalToArgs(c) \o ActionToArgs(c)

\* ------------------------------------------------------------------ parse
\* A token that clap reads as an option: it starts with a dash and is not
\* the lone dash.
IsOptionToken(t) == Len(t) >= 2 /\ Head(t) = "-"

\* What the clap attributes of an argument struct declare: the flags, the
\* options that take a value, and the least and greatest number of
\* positional arguments.
ArgSpec(sub) ==
    IF sub = "dump"
    THEN [flags |-> {Tok.overwrite_existing}, opts |-> {}, min_pos |-> 2, max_pos |-> 2]
    ELSE IF sub = "diff"
    THEN [flags |-> {Tok.verbose}, opts |-> {Tok.max_diffs}, min_pos |-> 2, max_pos |-> 2]
    ELSE IF sub = "show"
    THEN [flags |-> {Tok.verbose, Tok.show_paths}, opts |-> {Tok.max_entries, Tok.threads},
          min_pos |-> 0, max_pos |-> 1]
    ELSE IF sub = "query"
    THEN [flags |-> {}, opts |-> {Tok.drive_pattern, Tok.limit, Tok.display_interval, Tok.top},
          min_pos |-> 1, max_pos |-> 1]
    ELSE IF sub = "sync"
    THEN [flags |-> {Tok.overwrite_existing}, opts |-> {}, min_pos |-> 0, max_pos |-> 1]
    ELSE [flags |-> {}, opts |-> {}, min_pos |-> 0, max_pos |-> 0]

NoMatches == [ok |-> TRUE, flags |-> {}, opts |-> {}, pos |-> <<>>]

RECURSIVE MatchArgs(_, _, _)
\* The clap parser over the tokens of one subcommand: flags seen, option
\* values (pairs of name and value token) and positionals in order; not ok
\* for an unknown option, a repeated one, a missing value or a positional
\* too many.
MatchArgs(tokens, spec, m) ==
    IF Len(tokens) = 0 THEN [m EXCEPT !.ok = Len(m.pos) >= spec.min_pos]
    ELSE LET t == Head(tokens)
         IN  IF IsOptionToken(t)
             THEN IF t \in spec.flags /\ t \notin m.flags
                  THEN MatchArgs(Tail(tokens), spec, [m EXCEPT !.flags = @ \cup {t}])
                  ELSE IF t \in spec.opts /\ Len(tokens) >= 2 /\ ~\E o \in m.opts : o[1] = t
                  THEN MatchArgs(Tail(Tail(tokens)), spec,
                                 [m EXCEPT !.opts = @ \cup {<<t, tokens[2]>>}])
                  ELSE [m EXCEPT !.ok = FALSE]
             ELSE IF Len(m.pos) < spec.max_pos
             THEN MatchArgs(Tail(tokens), spec, [m EXCEPT !.pos = Append(@, t)])
             ELSE [m EXCEPT !.ok = FALSE]

\* The value token of option name in the matches, or the default.
OptToken(m, name, default) ==
    IF \E o \in m.opts : o[1] = name THEN (CHOOSE o \in m.opts : o[1] = name)[2] ELSE default
\* Option<usize>: None when the option is absent.
OptUsize(m, name) ==
    IF \E o \in m.opts : o[1] = name THEN ParseUsize(OptToken(m, name, <<>>)) ELSE None
OptGiven(m, name) == \E o \in m.opts : o[1] = name

ParseErr == [ok |-> FALSE]
ParseOk(debug, action, sub, args) ==
    [ok |-> TRUE, value |-> [debug |-> debug, action |-> action, sub |-> sub, args |-> args]]

\* DriveLetterPattern::default(), the default_value_t of the pattern arguments
DefaultDrivePattern == <<"*">>

\* FromArgMatches of the argument struct of sub (derive(Args)): the typed
\* fields from the matches, with the value parsers and defaults of the
\* clap attributes.
FromMatches(debug, sub, m) ==
    IF ~m.ok THEN ParseErr
    ELSE IF sub = "dump"
    THEN ParseOk(debug, "mft", sub,
             [drive_letters |-> m.pos[1], output_path |-> m.pos[2],
              overwrite_existing |-> Tok.overwrite_existing \in m.flags])
    ELSE IF sub = "diff"
    THEN IF OptGiven(m, Tok.max_diffs) /\ OptUsize(m, Tok.max_diffs) = None THEN ParseErr
         ELSE ParseOk(debug, "mft", sub,
                  [file1 |-> m.pos[1], file2 |-> m.pos[2], verbose |-> Tok.verbose \in m.flags,
                   max_diffs |-> OptUsize(m, Tok.max_diffs)])
    ELSE IF sub = "show"
    THEN IF \/ OptGiven(m, Tok.max_entries) /\ OptUsize(m, Tok.max_entries) = None
            \/ OptGiven(m, Tok.threads) /\ OptUsize(m, Tok.threads) = None
         THEN ParseErr
         ELSE ParseOk(debug, "mft", sub,
                  [mft_pattern |-> IF Len(m.pos) = 1 THEN SomePath(m.pos[1]) ELSE NoPath,
                   verbose |-> Tok.verbose \in m.flags, show_paths |-> Tok.show_paths \in m.flags,
                   max_entries |-> OptUsize(m, Tok.max_entries),
                   threads |-> OptUsize(m, Tok.threads)])
    ELSE IF sub = "query"
    THEN LET limit == ParseUsize(OptToken(m, Tok.limit, UsizeToString(DefaultLimit)))
             interval == ParseDuration(OptToken(m, Tok.display_interval,
                                                FormatDuration(DefaultDisplayInterval)), None)
             top_n == ParseUsize(OptToken(m, Tok.top, UsizeToString(DefaultTopN)))
         IN  IF limit = None \/ interval = None \/ top_n = None THEN ParseErr
             ELSE ParseOk(debug, "mft", sub,
                      [drive_pattern |-> OptToken(m, Tok.drive_pattern, DefaultDrivePattern),
                       query |-> m.pos[1], limit |-> limit, display_interval |-> interval,
                       top_n |-> top_n])
    ELSE IF sub = "sync"
    THEN ParseOk(debug, "mft", sub,
             [drive_pattern |-> IF Len(m.pos) = 1 THEN m.pos[1] ELSE DefaultDrivePattern,
              \* a SetTrue flag whose default_value_t is true
              overwrite_existing |-> TRUE])
    ELSE ParseOk(debug, "elevation", sub, [none |-> TRUE])

\* The subcommand a token names under action, or "" for none.
SubcommandOf(action, t) ==
    IF action = "mft"
    THEN IF t = Tok.dump THEN "dump" ELSE IF t = Tok.diff THEN "diff"
         ELSE IF t = Tok.show THEN "show" ELSE IF t = Tok.query THEN "query"
         ELSE IF t = Tok.sync THEN "sync" ELSE ""
    ELSE IF t = Tok.check THEN "check" ELSE IF t = Tok.test THEN "test" ELSE ""

\* Cli::try_parse_from(["test-exe"] ++ argv): the flattened GlobalArgs
\* before the subcommand, then the two subcommand names, then the arguments
\* of the inner subcommand.
TryParseFrom(argv) ==
    LET debug == Len(argv) > 0 /\ argv[1] = Tok.debug
        rest == IF debug THEN Tail(argv) ELSE argv
    IN  IF Len(rest) < 2 THEN ParseErr
        ELSE LET action == IF rest[1] = Tok.mft THEN "mft"
                           ELSE IF rest[1] = Tok.elevation THEN "elevation" ELSE ""
                 sub == IF action = "" THEN "" ELSE SubcommandOf(action, rest[2])
             IN  IF sub = "" THEN ParseErr
                 ELSE FromMatches(debug, sub,
                                  MatchArgs(SubSeq(rest, 3, Len(rest)), ArgSpec(sub), NoMatches))

\* ----------------------------------------------------------------- inputs
\* Well-formed argument values: names that are no option tokens, numbers,
\* whole-second intervals. 90 seconds formats as two items ("1m 30s").
NameChoices == {<<"a">>, <<"b">>}
DriveChoices == {<<"C">>, <<"D">>}
PatternChoices == {<<"*">>, <<"C">>}
CountChoices == {None, 0, 12}
IntervalChoices == {DefaultDisplayInterval, 2, 90}

MftValues ==
    {[sub |-> "dump", args |-> [drive_letters |-> d, output_path |-> o, overwrite_existing |-> w]] :
        d \in DriveChoices, o \in NameChoices, w \in BOOLEAN}
    \cup {[sub |-> "diff", args |-> [file1 |-> f1, file2 |-> f2, verbose |-> v, max_diffs |-> n]] :
        f1 \in NameChoices, f2 \in NameChoices, v \in BOOLEAN, n \in CountChoices}
    \cup {[sub |-> "show", args |-> [mft_pattern |-> p, verbose |-> v, show_paths |-> s,
                                       max_entries |-> n, threads |-> j]] :
        p \in {NoPath, SomePath(<<"a">>)}, v \in BOOLEAN, s \in BOOLEAN,
        n \in {None, 12}, j \in {None, 2}}
    \cup {[sub |-> "query", args |-> [drive_pattern |-> p, query |-> q, limit |-> l,
                                        display_interval |-> i, top_n |-> t]] :
        p \in PatternChoices, q \in NameChoices, l \in {DefaultLimit, 12},
        i \in IntervalChoices, t \in {DefaultTopN, 2}}
    \cup {[sub |-> "sync", args |-> [drive_pattern |-> p, overwrite_existing |-> w]] :
        p \in PatternChoices, w \in BOOLEAN}

CliValues ==
    {[debug |-> g, action |-> "mft", sub |-> v.sub, args |-> v.args] :
        g \in BOOLEAN, v \in MftValues}
    \cup {[debug |-> g, action |-> "elevation", sub |-> s, args |-> [none |-> TRUE]] :
        g \in BOOLEAN, s \in {"check", "test"}}

\* ---------------------------------------------------------------- actions
\* cli.to_args()
CliToArgs ==
    /\ cli.pc = "value"
    /\ cli' = [cli EXCEPT !.pc = "argv", !.argv = CliToArgsOf(cli.value)]
    /\ UNCHANGED <<diff, display, tab, files, env, walk, query, workerVars, rx_alive, appVars, cliVars>>

\* Cli::try_parse_from(&full_args)
CliParse ==
    /\ cli.pc = "argv"
    /\ cli' = [cli EXCEPT !.pc = "parsed", !.parsed = TryParseFrom(cli.argv)]
    /\ UNCHANGED <<diff, display, tab, files, env, walk, query, workerVars, rx_alive, appVars, cliVars>>

InitCli ==
    /\ files = <<>>
    /\ env = Environment({}, FALSE)
    /\ walk = NoWalk
    /\ query = NoQuery
    /\ InitWorkers
    /\ InitApp
    /\ iter = NoIter
    /\ dump = NoDump
    /\ config = NoConfig
    /\ diff = NoDiff
    /\ display = NoDisplay
    /\ tab = NoSearch
    /\ \E value \in CliValues : cli = [pc |-> "value", value |-> value, argv |-> <<>>,
                                      parsed |-> ParseErr]

NextCli ==
    \/ CliToArgs
    \/ CliParse

SpecCli == InitCli /\ [][NextCli]_vars

\* C33: for every well-formed Cli value, parsing the argv that to_args()
\* produces succeeds and yields a Cli equal to the original.
C33_ArgvRoundTrip ==
    cli.pc = "parsed" => cli.parsed.ok /\ cli.parsed.value = cli.value

\* ------------------------------------------------- per-record event order
\* The events of a record up to and including its first Progress.
UpToProgress(events) ==
    LET ps == {j \in 1..Len(events) : events[j].type = "Progress"}
    IN  IF ps = {} THEN events
        ELSE SubSeq(events, 1, CHOOSE j \in ps : \A q \in ps : j <= q)
\* The order of the events of one handled record: the health status, the
\* Error of a record that failed to parse, one non-empty DiscoveredFiles
\* when paths were resolved, one Progress.
RecordShape(events, ok) ==
    /\ TypesOf(events) \in
          (IF ok THEN {<<"EntryStatus", "Progress">>,
                       <<"EntryStatus", "DiscoveredFiles", "Progress">>}
           ELSE {<<"EntryStatus", "Error", "Progress">>})
    /\ events[1].is_healthy = ok
    /\ \A j \in 1..Len(events) :
          events[j].type = "DiscoveredFiles" => Len(events[j].files) > 0
\* The k-th record of file i has been handled to its Progress.
RecordHandled(i, k) ==
    \/ k < Cardinality(StatusPositions(sent[i]))
    \/ pc[i] \in {"iter", "flush", "done"}

\* C34: for each record the worker sends the health status first, then,
\* only when at least one path was resolved while handling the record, one
\* DiscoveredFiles event with a non-empty list, then exactly one Progress;
\* nothing of the next record is sent before this record's Progress.
C34_RecordEventOrder ==
    \A i \in FileIndices :
        LET count == Cardinality(StatusPositions(sent[i]))
        IN  /\ \A k \in 1..count :
                  LET events == RecordEvents(i, k)
                      handled == UpToProgress(events)
                  IN  /\ RecordHandled(i, k) =>
                            /\ RecordShape(handled, files[i].entries[k].ok)
                            /\ k < count => events = handled
                            /\ \A j \in (Len(handled) + 1)..Len(events) :
                                  events[j].type = "DiscoveredFiles" /\ pc[i] \in {"flush", "done"}
                      /\ ~RecordHandled(i, k) =>
                            /\ events[1].type = "EntryStatus"
                            /\ Len(ProgressEvents(events)) = 0
                            /\ Len(events) <= 2
            /\ (pc[i] \in {"emit", "resolve", "entry_error"}) =>
                  sent[i][Len(sent[i])].type = "EntryStatus"
            /\ (pc[i] = "iter" /\ pos[i] >= 1 /\ files[i].entries[pos[i]].ok) =>
                  (Len(discovered[i]) > 0
                      <=> \E j \in 1..Len(RecordEvents(i, count)) :
                             /\ RecordEvents(i, count)[j].type = "DiscoveredFiles"
                             /\ RecordEvents(i, count)[j].files = discovered[i])

\* C34 witness: a file is done that had a record whose handling resolved a
\* path (status, DiscoveredFiles, Progress), a record whose handling
\* resolved none (status, Progress) and a record that failed to parse.
C34_Witness ==
    \E i \in FileIndices :
        /\ pc[i] = "done"
        /\ \E k1, k2, k3 \in 1..Len(files[i].entries) :
              /\ TypesOf(UpToProgress(RecordEvents(i, k1))) = <<"EntryStatus", "DiscoveredFiles", "Progress">>
              /\ TypesOf(UpToProgress(RecordEvents(i, k2))) = <<"EntryStatus", "Progress">>
              /\ TypesOf(UpToProgress(RecordEvents(i, k3))) = <<"EntryStatus", "Error", "Progress">>

\* ------------------------------------------------- the end of the workers
\* No task runs and try_for_each hands out no further file: the worker
\* thread's closure returns.
WorkersStopped ==
    /\ Running = {}
    /\ full \/ \A i \in FileIndices : pc[i] # "unstarted"
\* The cache file can be read up to its header.
FileOpens(i) == files[i].stat_ok /\ files[i].open_ok /\ files[i].header_ok

\* C35: absent quit, a failure to stat, open, map or parse the header of one
\* cache file does not keep the other cache files from being processed:
\* when the workers have stopped, every file that can be opened has been
\* processed up to its Complete event.
C35_OtherFilesStillComplete ==
    (WorkersStopped /\ rx_alive /\ ~quit_pressed)
        => \A i \in FileIndices : FileOpens(i) => HasSent(i, "Complete")

\* C36: absent quit, every file handed to start_workers produces a Complete
\* or an Error event: when the workers have stopped and the presentation
\* loop has drained the channel, no file is left without either.
C36_EveryFileCompletesOrErrors ==
    (WorkersStopped /\ rx_alive /\ ~quit_pressed /\ chan = <<>>)
        => \A i \in FileIndices :
              /\ HasSent(i, "Complete") \/ HasSent(i, "Error")
              /\ mft_files[i].processing_end # None \/ Len(mft_files[i].errors) > 0

\* ---------------------------------------------------- the pending structure
RECURSIVE OnParentChain(_, _, _, _)
\* Record key lies on the parent chain that starts at current, following
\* the parents recorded in dirs.
OnParentChain(dirs, current, key, fuel) ==
    /\ current # None
    /\ \/ current = key
       \/ /\ fuel > 0
          /\ current \in DOMAIN dirs
          /\ OnParentChain(dirs, dirs[current].parent, key, fuel - 1)

\* C40: after each record has been handled, resolve_queue is empty and every
\* unresolved entry is held in exactly one pending list, keyed by a record
\* number on its parent chain that has not itself been emitted; an entry is
\* filed at most once per missing ancestor and resolved at most once.
C40_PendingStructure ==
    \A i \in FileIndices :
        /\ pc[i] \in {"emit", "progress", "iter"} => resolve_queue[i] = <<>>
        /\ pc[i] = "iter" =>
              /\ \A k \in NamedSlots(i) :
                    k <= pos[i] =>
                        LET n == files[i].entries[k].record_number
                        IN  Len(EmissionsOf(i, n)) + Len(PendingOf(i, n)) = 1
              /\ \A key \in DOMAIN pending[i] :
                    /\ Len(EmissionsOf(i, key)) = 0
                    /\ \A j \in 1..Len(pending[i][key]) :
                          OnParentChain(directories[i], pending[i][key][j].parent_ref, key,
                                        Len(files[i].entries))
              /\ \A a, b \in 1..Len(filed[i]) : a # b => filed[i][a] # filed[i][b]
        /\ \A k \in 1..Len(files[i].entries) :
              Len(EmissionsOf(i, files[i].entries[k].record_number)) <= 1

\* C40 witness: between two records, an entry waits under a key that has
\* arrived but is itself waiting for its own parent, and an entry waits
\* under an ancestor that is not its direct parent.
C40_Witness ==
    \E i \in FileIndices :
        /\ pc[i] = "iter"
        /\ resolve_queue[i] = <<>>
        /\ \E key \in DOMAIN pending[i] :
              /\ key \in DOMAIN directories[i]
              /\ Len(pending[i][key]) > 0
              /\ Len(PendingOf(i, key)) = 1
        /\ \E key \in DOMAIN pending[i] :
              \E j \in 1..Len(pending[i][key]) : pending[i][key][j].parent_ref # key
        /\ Len(filed[i]) = MaxRecords

\* C39 (transition form): while quitting, a step keeps is_quitting, never
\* sets the quit effect back, and a step that reads the input leaves the
\* state of the tabs alone.
C39_Step ==
    is_quitting =>
        /\ is_quitting'
        /\ quit_effect' <= quit_effect
        /\ app_pc = "poll" =>
              /\ tabs_selected' = tabs_selected
              /\ last_file_count' = last_file_count
              /\ injected' = injected

\* C39: the quitting state is absorbing: once is_quitting is true it never
\* becomes false again, no later key press (a second q or Esc included) is
\* delivered to a tab or changes tab state, and the quit animation is not
\* restarted.
C39_QuittingIsAbsorbing == [][C39_Step]_vars

\* C39 witness: while quitting, with the animation partly run, a second
\* quit key and another key have been read; the animation went on from
\* where it was and the first tab is still selected.
C39_Witness ==
    /\ is_quitting
    /\ late_keys = {"quit", "other"}
    /\ quit_effect > 0
    /\ quit_effect < QuitEffectTicks
    /\ tabs_selected = 0

\* ==================================================== mft query: display
\* mft_query.rs query_mft_files_fuzzy: the periodic display loop and the
\* worker thread's store to the done flag. Every load of the flag is a step
\* of its own, so that the store can fall between any two of them.
\* ------------------------------------------------------------------ bounds
\* Preview blocks counted in the history (the count saturates).
MaxBlocks == 3

\* The loop is entered: nothing printed, the first display is forced
\* (last_display = now - display_interval).
DisplayNew(has_timeout, zero_interval) ==
    [pc |-> "top", done |-> FALSE, due |-> TRUE, expired |-> FALSE,
     has_timeout |-> has_timeout, zero_interval |-> zero_interval,
     last_label |-> "none", blocks |-> 0, exit |-> "none"]

\* worker_done.store(true, Ordering::Release) at the end of the worker thread
WorkerStoresDone ==
    /\ display.pc # "none"
    /\ ~display.done
    /\ display' = [display EXCEPT !.done = TRUE]
    /\ UNCHANGED <<diff, tab, cli, files, env, walk, query, workerVars, rx_alive, appVars, cliVars>>

\* Time passes: the display interval since last_display elapses, or the
\* timeout since start does.
TimePasses ==
    /\ display.pc \notin {"none", "final"}
    /\ \/ ~display.due /\ display' = [display EXCEPT !.due = TRUE]
       \/ display.has_timeout /\ ~display.expired /\ display' = [display EXCEPT !.expired = TRUE]
    /\ UNCHANGED <<diff, tab, cli, files, env, walk, query, workerVars, rx_alive, appVars, cliVars>>

\* Top of the loop: the timeout test, matcher.tick(10), the interval test.
DisplayTop ==
    /\ display.pc = "top"
    /\ display' = IF display.has_timeout /\ display.expired
                  THEN [display EXCEPT !.pc = "final", !.exit = "timeout"]
                  ELSE [display EXCEPT !.pc = IF display.due THEN "label" ELSE "check_done"]
    /\ UNCHANGED <<diff, tab, cli, files, env, walk, query, workerVars, rx_alive, appVars, cliVars>>

\* The preview block: the header with the label chosen by the first load of
\* the flag, the items, last_display = now.
DisplayBlock ==
    /\ display.pc = "label"
    /\ display' = [display EXCEPT
                      !.pc = "exit_test",
                      !.last_label = IF display.done THEN "Final preview" ELSE "Preview",
                      !.blocks = IF @ < MaxBlocks THEN @ + 1 ELSE @,
                      !.due = display.zero_interval]
    /\ UNCHANGED <<diff, tab, cli, files, env, walk, query, workerVars, rx_alive, appVars, cliVars>>

\* if done.load(Acquire) { break; } after the block
DisplayExitTest ==
    /\ display.pc = "exit_test"
    /\ display' = IF display.done
                  THEN [display EXCEPT !.pc = "final", !.exit = "done"]
                  ELSE [display EXCEPT !.pc = "check_done"]
    /\ UNCHANGED <<diff, tab, cli, files, env, walk, query, workerVars, rx_alive, appVars, cliVars>>

\* The last test of the loop body: done and the interval not yet elapsed
\* -> timeout test, continue; otherwise the loop goes round.
DisplayCheckDone ==
    /\ display.pc = "check_done"
    /\ display' = IF display.done /\ ~display.due /\ display.has_timeout /\ display.expired
                  THEN [display EXCEPT !.pc = "final", !.exit = "timeout"]
                  ELSE [display EXCEPT !.pc = "top"]
    /\ UNCHANGED <<diff, tab, cli, files, env, walk, query, workerVars, rx_alive, appVars, cliVars>>

InitDisplay ==
    /\ files = <<>>
    /\ env = Environment({}, FALSE)
    /\ walk = NoWalk
    /\ query = NoQuery
    /\ InitWorkers
    /\ InitApp
    /\ iter = NoIter
    /\ dump = NoDump
    /\ config = NoConfig
    /\ diff = NoDiff
    /\ tab = NoSearch
    /\ cli = NoCli
    /\ \E has_timeout \in BOOLEAN, zero_interval \in BOOLEAN :
          display = DisplayNew(has_timeout, zero_interval)

NextDisplay ==
    \/ WorkerStoresDone
    \/ TimePasses
    \/ DisplayTop
    \/ DisplayBlock
    \/ DisplayExitTest
    \/ DisplayCheckDone

SpecDisplay == InitDisplay /\ [][NextDisplay]_vars

\* C37: whenever the display loop of mft query exits because the done flag
\* was observed (not on timeout), the last preview block printed before the
\* exit was labelled "Final preview", for every interleaving of the
\* worker's store with the loop's loads.
C37_LastBlockIsFinalPreview ==
    display.exit = "done" => display.last_label = "Final preview"

(***************************************************************************)
(* The Search tab (tui/widgets/tabs/search_tab.rs).  The tab keeps the     *)
(* selected row, the first visible row and the height of the result area.  *)
(* The number of matches is the one of the matcher's snapshot, which only  *)
(* changes when render ticks the matcher; the key handlers read the same   *)
(* snapshot.  The text of the query only matters through the number of     *)
(* matches the next tick produces, which is an input of the render.        *)
(* Heights are at least one row: with an empty result area the Down and    *)
(* PageDown handlers compute visible_height - 1 on an unsigned zero.       *)
(***************************************************************************)
MaxMatches == 4

MaxHeight == 3

DefaultVisibleHeight == 20

KeyCodes == {"Char", "Backspace", "Up", "Down", "PageUp", "PageDown", "Home", "End", "Other"}

SearchNew ==
    [pc |-> "new", selected_index |-> 0, scroll_offset |-> 0,
     visible_height |-> DefaultVisibleHeight, matched_count |-> 0]

\* usize::saturating_sub
SaturatingSub(a, b) == IF a >= b THEN a - b ELSE 0

\* SearchTab::on_key: the fields after one key press.
OnKey(t, code) ==
    LET sel == t.selected_index
        off == t.scroll_offset
        vh == t.visible_height
        matched_count == t.matched_count
        Follow(s) == IF s >= off + vh THEN SaturatingSub(s, vh - 1) ELSE off
    IN  CASE code \in {"Char", "Backspace"} ->
               [t EXCEPT !.scroll_offset = 0, !.selected_index = 0]
          [] code = "Up" ->
               IF sel > 0
               THEN [t EXCEPT !.selected_index = sel - 1,
                              !.scroll_offset = IF sel - 1 < off THEN sel - 1 ELSE off]
               ELSE t
          [] code = "Down" ->
               IF matched_count > 0 /\ sel < matched_count - 1
               THEN [t EXCEPT !.selected_index = sel + 1,
                              !.scroll_offset = Follow(sel + 1)]
               ELSE t
          [] code = "PageUp" ->
               [t EXCEPT !.selected_index = SaturatingSub(sel, vh),
                         !.scroll_offset = SaturatingSub(off, vh)]
          [] code = "PageDown" ->
               IF matched_count > 0
               THEN LET s == IF sel + vh < matched_count - 1 THEN sel + vh
                             ELSE matched_count - 1
                    IN  [t EXCEPT !.selected_index = s, !.scroll_offset = Follow(s)]
               ELSE t
          [] code = "Home" ->
               [t EXCEPT !.selected_index = 0, !.scroll_offset = 0]
          [] code = "End" ->
               IF matched_count > 0
               THEN [t EXCEPT !.selected_index = matched_count - 1,
                              !.scroll_offset = SaturatingSub(matched_count, vh)]
               ELSE t
          [] OTHER -> t

\* SearchTab::render_search_results: nothing is adjusted without a match;
\* otherwise the offset is capped by max_scroll and the selection by the
\* last match.
RenderSearchResults(t) ==
    IF t.matched_count = 0
    THEN t
    ELSE LET max_scroll == SaturatingSub(t.matched_count, t.visible_height)
         IN  [t EXCEPT !.scroll_offset = IF @ < max_scroll THEN @ ELSE max_scroll,
                       !.selected_index = IF @ < t.matched_count - 1 THEN @
                                          ELSE t.matched_count - 1]

\* A key press reaches the tab.
SearchKey ==
    /\ tab.pc # "none"
    /\ \E code \in KeyCodes :
          tab' = [OnKey(tab, code) EXCEPT !.pc = "keyed"]
    /\ UNCHANGED <<diff, display, cli, files, env, walk, query, workerVars, rx_alive, appVars, cliVars>>

\* SearchTab::render: the height of the result area is stored, the matcher
\* is ticked (the snapshot gets its new number of matches) and the results
\* are drawn.
SearchRender ==
    /\ tab.pc # "none"
    /\ \E height \in 1..MaxHeight, count \in 0..MaxMatches :
          tab' = [RenderSearchResults([tab EXCEPT !.visible_height = height,
                                                  !.matched_count = count])
                      EXCEPT !.pc = "rendered"]
    /\ UNCHANGED <<diff, display, cli, files, env, walk, query, workerVars, rx_alive, appVars, cliVars>>

InitSearch ==
    /\ files = <<>>
    /\ env = Environment({}, FALSE)
    /\ walk = NoWalk
    /\ query = NoQuery
    /\ InitWorkers
    /\ InitApp
    /\ iter = NoIter
    /\ dump = NoDump
    /\ config = NoConfig
    /\ diff = NoDiff
    /\ display = NoDisplay
    /\ cli = NoCli
    /\ tab = SearchNew

NextSearch ==
    \/ SearchKey
    \/ SearchRender

SpecSearch == InitSearch /\ [][NextSearch]_vars

\* C38: right after a render of the Search tab with at least one match and a
\* result area of at least one row, the selected index is below the number
\* of matches and lies inside the visible window
\* [scroll_offset, scroll_offset + visible_height).
C38_SelectedRowVisible ==
    (tab.pc = "rendered" /\ tab.matched_count >= 1 /\ tab.visible_height >= 1)
        => /\ tab.selected_index < tab.matched_count
           /\ tab.scroll_offset <= tab.selected_index
           /\ tab.selected_index < tab.scroll_offset + tab.visible_height

====
